---- MODULE Spec2Model ----
(***************************************************************************)
(* NF-e ingestion pipeline: validation (ValidadorNF), persistence          *)
(* (DatabaseManager), tabular/bundle upload (Dashboard) and the e-mail     *)
(* batch (buscar_e_processar_emails).                                      *)
(*                                                                         *)
(* Text is modelled by strings, inspected character by character through   *)
(* Len, SubSeq, Head, Tail and \o.  A monetary value is a sign with a      *)
(* whole part and hundredths.  Dates are whole days relative to "now"      *)
(* (0 = now, negative = past).                                             *)
(* An optional value is a sequence of length 0 (None) or 1.                *)
(***************************************************************************)
EXTENDS Integers, Sequences, FiniteSets, TLC

VARIABLES
    \* the store and the last call of an import handler
    notas_fiscais,      \* table notas_fiscais
    itens_nota_fiscal,  \* table itens_nota_fiscal
    persistidas,        \* history: the record behind each row of notas_fiscais
    resultados,         \* resultados of the last call: processados, erros, detalhes
    st_msgs,            \* messages the last call showed
    eventos,            \* history: what the last call did for each document
    salvamentos,        \* history: the saves the last call made
    chamada,            \* "nenhuma" | "upload" | "zip" | "email"
    entrada,            \* names of the documents handed to the last call
    docs_usados,        \* documents handed to the handlers so far
    relogio,            \* the second of the clock the next call reads
    requisicoes,        \* calls the rate limiter has let through
    \* ValidadorNF._validar_cnpj as a function
    cnpj_arg,      \* argument handed to ValidadorNF._validar_cnpj
    cnpj_orig,     \* the tax-id cnpj_arg was derived from
    cnpj_res,      \* last answer of _validar_cnpj ("pendente" before a call)
    cnpj_fase,     \* "original" | "mutado"
    \* ValidadorNF.validar_nota_fiscal as a function
    val_nota,      \* <<nota>>: the record handed to validar_nota_fiscal
    val_res,       \* "pendente" | "True" | "False"
    \* concurrent calls of DatabaseManager.salvar_nota_fiscal
    pc,            \* per request: "verificar" | "inserir" | "fim"
    achou,         \* per request: what its duplicate check found, and when
    pedido,        \* per request: the record it saves
    \* the extractors as functions of one document
    ext_doc,       \* <<[tipo, d]>>: the document handed to an extractor
    ext_nota,      \* what the extractor returned: <<nota>>, or <<>> for None
    ext_passos,    \* the steps parse_xml_safely made, in order
    ext_val,       \* "pendente" | "True" | "False": validar_nota_fiscal on ext_nota
    ext_fase,      \* "parado" | "entrada" | "extraido" | "validado"
    \* sanitizers and the items-role handler as functions
    fn_nome,       \* "nenhuma" | "numeric" | "chave" | "itens": the function
    fn_arg,        \* <<x>>: the argument of its first application
    fn_res,        \* the results of its successive applications
    \* RateLimiter
    rl_requests,   \* self._requests: per identifier, the recorded timestamps
    rl_agora,      \* the second datetime.now() reads next
    rl_hist,       \* history: the calls of is_allowed with their answers
    rl_cfg         \* <<[max_requests, janela]>>: the arguments every call passes

vars_pipe == <<notas_fiscais, itens_nota_fiscal, persistidas, resultados, st_msgs,
               eventos, salvamentos, chamada, entrada, docs_usados, relogio, requisicoes>>
vars_cnpj == <<cnpj_arg, cnpj_orig, cnpj_res, cnpj_fase>>
vars_val == <<val_nota, val_res>>
vars_race == <<pc, achou, pedido>>
vars_ext == <<ext_doc, ext_nota, ext_passos, ext_val, ext_fase>>

vars_fn == <<fn_nome, fn_arg, fn_res>>
vars_rl == <<rl_requests, rl_agora, rl_hist, rl_cfg>>

vars == <<vars_pipe, vars_cnpj, vars_val, vars_race, vars_ext, vars_fn, vars_rl>>

(***************************************************************************)
(* Character helpers                                                       *)
(***************************************************************************)
Digits == {"0", "1", "2", "3", "4", "5", "6", "7", "8", "9"}

DigitChars == <<"0", "1", "2", "3", "4", "5", "6", "7", "8", "9">>

\* int(c) for a decimal digit character
DigitVal(c) == (CHOOSE i \in 1..10 : DigitChars[i] = c) - 1

\* s[i], 1-based
Ch(s, i) == SubSeq(s, i, i)

\* re.sub(r'[^\d]', '', s)
RECURSIVE OnlyDigits(_)
OnlyDigits(s) ==
    IF s = "" THEN ""
    ELSE (IF Head(s) \in Digits THEN Head(s) ELSE "") \o OnlyDigits(Tail(s))

\* c * n
RECURSIVE Repeat(_, _)
Repeat(c, n) == IF n = 0 THEN "" ELSE c \o Repeat(c, n - 1)

(***************************************************************************)
(* ValidadorNF._calcular_digito_cnpj / _validar_cnpj                       *)
(***************************************************************************)
\* the "for i in range(n)" loop: soma += int(cnpj[i]) * peso; peso -= 1;
\* if peso < 2: peso = 9   (i is 1-based here)
RECURSIVE SomaCnpj(_, _, _, _, _)
SomaCnpj(cnpj, i, n, soma, peso) ==
    IF i > n THEN soma
    ELSE SomaCnpj(cnpj, i + 1, n, soma + DigitVal(Ch(cnpj, i)) * peso,
                  IF peso - 1 < 2 THEN 9 ELSE peso - 1)

\* resto = soma % 11; digito = 0 if resto < 2 else 11 - resto
DigitoDe(soma) ==
    LET resto == soma % 11
    IN  IF resto < 2 THEN 0 ELSE 11 - resto

\* variant of _calcular_digito_cnpj that never compares the second check digit
CalcularDigitoSoPrimeiro(cnpj) ==
    DigitVal(Ch(cnpj, 13)) = DigitoDe(SomaCnpj(cnpj, 1, 12, 0, 5))

calcular_digito_cnpj(cnpj) ==
    LET digito1 == DigitoDe(SomaCnpj(cnpj, 1, 12, 0, 5))
        digito2 == DigitoDe(SomaCnpj(cnpj, 1, 13, 0, 6))
    IN  IF DigitVal(Ch(cnpj, 13)) # digito1 THEN FALSE
        ELSE DigitVal(Ch(cnpj, 14)) = digito2

validar_cnpj(cnpj) ==
    IF cnpj = "" THEN FALSE
    ELSE LET cnpj_numeros == OnlyDigits(cnpj)
         IN  IF Len(cnpj_numeros) # 14 THEN FALSE
             ELSE IF cnpj_numeros = Repeat(Ch(cnpj_numeros, 1), 14) THEN FALSE
             ELSE calcular_digito_cnpj(cnpj_numeros)

(***************************************************************************)
(* Text and number helpers                                                 *)
(***************************************************************************)
UpperChars == "ABCDEFGHIJKLMNOPQRSTUVWXYZ"
LowerChars == "abcdefghijklmnopqrstuvwxyz"

\* c.lower() for every upper-case letter c
LowerDe == [c \in {Ch(UpperChars, i) : i \in 1..26} |->
               Ch(LowerChars, CHOOSE i \in 1..26 : Ch(UpperChars, i) = c)]

LowerCh(c) == IF c \in DOMAIN LowerDe THEN LowerDe[c] ELSE c

\* str.lower()
RECURSIVE Lower(_)
Lower(s) == IF s = "" THEN "" ELSE LowerCh(Head(s)) \o Lower(Tail(s))

\* "sub in s"
Contains(s, sub) ==
    \E i \in 1..(Len(s) - Len(sub) + 1) : SubSeq(s, i, i + Len(sub) - 1) = sub

\* s.endswith(suf)
EndsWith(s, suf) ==
    Len(s) >= Len(suf) /\ SubSeq(s, Len(s) - Len(suf) + 1, Len(s)) = suf

\* variant of s.replace(sub, "") that cuts len(sub) leading characters
\* whether or not they are sub
CortarPrefixo(s, sub) == SubSeq(s, Len(sub) + 1, Len(s))

\* s.replace(sub, "")
RECURSIVE RemoveSub(_, _)
RemoveSub(s, sub) ==
    IF Len(s) < Len(sub) THEN s
    ELSE IF SubSeq(s, 1, Len(sub)) = sub
         THEN RemoveSub(SubSeq(s, Len(sub) + 1, Len(s)), sub)
         ELSE Head(s) \o RemoveSub(Tail(s), sub)

\* s.replace(a, b) for single characters a, b
RECURSIVE ReplaceCh(_, _, _)
ReplaceCh(s, a, b) ==
    IF s = "" THEN ""
    ELSE (IF Head(s) = a THEN b ELSE Head(s)) \o ReplaceCh(Tail(s), a, b)

RECURSIVE LStrip(_)
LStrip(s) == IF s # "" /\ Head(s) = " " THEN LStrip(Tail(s)) ELSE s

RECURSIVE RStrip(_)
RStrip(s) ==
    IF s # "" /\ Ch(s, Len(s)) = " " THEN RStrip(SubSeq(s, 1, Len(s) - 1)) ELSE s

\* str.strip()
Strip(s) == RStrip(LStrip(s))

\* s.split('.')[-1]
RECURSIVE AfterLastDot(_)
AfterLastDot(s) ==
    IF Contains(s, ".") THEN AfterLastDot(Tail(s)) ELSE s

\* number of occurrences of the character c in s
RECURSIVE CountCh(_, _)
CountCh(s, c) ==
    IF s = "" THEN 0 ELSE (IF Head(s) = c THEN 1 ELSE 0) + CountCh(Tail(s), c)

\* int(s) for a string of decimal digits ("" counts as 0)
RECURSIVE IntOf(_)
IntOf(s) ==
    IF s = "" THEN 0
    ELSE IntOf(SubSeq(s, 1, Len(s) - 1)) * 10 + DigitVal(Ch(s, Len(s)))

\* A float holding a monetary value: sign s, whole part r, hundredths c.
Dec(sinal, r, c) == [s |-> sinal, r |-> r, c |-> c]

DecZero == Dec(1, 0, 0)

DecIsZero(m) == m.r = 0 /\ m.c = 0

\* m > 0, m < 0
DecPos(m) == m.s = 1 /\ ~DecIsZero(m)
DecNeg(m) == m.s = -1 /\ ~DecIsZero(m)

\* a > b for non-negative a, b
DecGtAbs(a, b) == a.r > b.r \/ (a.r = b.r /\ a.c > b.c)

\* float(s) for text made of an optional sign, digits and at most one '.',
\* with at most two decimals: <<value>>, or <<>> for ValueError
ParseFloat(s) ==
    LET neg   == s # "" /\ Head(s) = "-"
        body  == IF neg THEN Tail(s) ELSE s
        ponto == IF Contains(body, ".")
                 THEN CHOOSE i \in 1..Len(body) : Ch(body, i) = "."
                 ELSE Len(body) + 1
        int   == SubSeq(body, 1, ponto - 1)
        frac  == SubSeq(body, ponto + 1, Len(body))
        frac2 == SubSeq(frac \o "00", 1, 2)
    IN  IF \/ OnlyDigits(body) = ""
           \/ CountCh(body, ".") > 1
           \/ Len(OnlyDigits(body)) + CountCh(body, ".") # Len(body)
        THEN <<>>
        ELSE <<Dec(IF neg /\ (IntOf(int) # 0 \/ IntOf(frac2) # 0) THEN -1 ELSE 1,
                   IntOf(int), IntOf(frac2))>>

(***************************************************************************)
(* NotaFiscal (dataclass) and the rest of ValidadorNF                      *)
(***************************************************************************)
\* valor_total is a float, or the text captured from a PDF
VFloat(m) == [tipo |-> "float", num |-> m, txt |-> ""]
VStr(t)   == [tipo |-> "str", num |-> DecZero, txt |-> t]

\* NotaFiscal(...) with the dataclass defaults for the tax values
NotaFiscal(numero, serie, data_emissao, cnpj_emitente, nome_emitente, valor_total, chave_acesso, natureza_operacao, itens) ==
    [numero |-> numero, serie |-> serie, data_emissao |-> data_emissao,
     cnpj_emitente |-> cnpj_emitente, nome_emitente |-> nome_emitente,
     valor_total |-> valor_total, chave_acesso |-> chave_acesso,
     natureza_operacao |-> natureza_operacao,
     valor_icms |-> DecZero, valor_ipi |-> DecZero,
     valor_pis |-> DecZero, valor_cofins |-> DecZero,
     itens |-> itens]

\* SecurityConfig.MAX_ITEMS_PER_NF
MAX_ITEMS_PER_NF == 1000

\* 999999999.99, the ceiling of valor_total
ValorMaximo == Dec(1, 999999999, 99)

\* timedelta(days=3650) / timedelta(days=1)
DiasPassado == 3650
DiasFuturo == 1

validar_campos_obrigatorios(nota) ==
    \A valor \in {nota.numero, nota.serie, nota.cnpj_emitente, nota.chave_acesso,
                  nota.nome_emitente, nota.natureza_operacao} :
        Strip(valor) # ""

\* re.sub(r'[^\d]', '', chave.replace('NFe', ''))
LimparChave(chave) == OnlyDigits(RemoveSub(chave, "NFe"))

\* variant of _validar_chave_acesso without the all-zero test
ValidarChaveSemZeros(chave) ==
    IF chave = "" THEN FALSE ELSE Len(LimparChave(chave)) = 44

validar_chave_acesso(chave) ==
    IF chave = "" THEN FALSE
    ELSE LET chave_limpa == LimparChave(chave)
         IN  IF Len(chave_limpa) # 44 THEN FALSE
             ELSE IF chave_limpa = Repeat("0", 44) THEN FALSE
             ELSE TRUE

\* _validar_valores: [ok, nota]; a text valor_total is converted in place
validar_valores(nota) ==
    LET conv == IF nota.valor_total.tipo = "str"
                THEN ParseFloat(ReplaceCh(nota.valor_total.txt, ",", "."))
                ELSE <<nota.valor_total.num>>
    IN  IF conv = <<>> THEN [ok |-> FALSE, nota |-> nota]
        ELSE LET n2 == [nota EXCEPT !.valor_total = VFloat(conv[1])]
                 v  == conv[1]
             IN  IF ~DecPos(v) THEN [ok |-> FALSE, nota |-> n2]
                 ELSE IF DecGtAbs(v, ValorMaximo) THEN [ok |-> FALSE, nota |-> n2]
                 ELSE IF \E t \in {n2.valor_icms, n2.valor_ipi,
                                   n2.valor_pis, n2.valor_cofins} : DecNeg(t)
                      THEN [ok |-> FALSE, nota |-> n2]
                 ELSE [ok |-> TRUE, nota |-> n2]

validar_data(data) ==
    IF data = <<>> THEN FALSE
    ELSE IF data[1] < 0 - DiasPassado THEN FALSE
    ELSE IF data[1] > DiasFuturo THEN FALSE
    ELSE TRUE

validar_itens(itens) ==
    IF itens = <<>> THEN TRUE
    ELSE IF Len(itens) > MAX_ITEMS_PER_NF THEN FALSE
    ELSE \A i \in 1..Len(itens) :
            /\ itens[i].descricao # ""
            /\ itens[i].codigo # ""
            /\ ~DecNeg(itens[i].quantidade)
            /\ ~DecNeg(itens[i].valor_unitario)
            /\ ~DecNeg(itens[i].valor_total)

\* validar_nota_fiscal: [ok, nota] (nota as left by _validar_valores)
validar_nota_fiscal(nota) ==
    IF ~validar_campos_obrigatorios(nota) THEN [ok |-> FALSE, nota |-> nota]
    ELSE IF ~validar_cnpj(nota.cnpj_emitente) THEN [ok |-> FALSE, nota |-> nota]
    ELSE IF ~validar_chave_acesso(nota.chave_acesso) THEN [ok |-> FALSE, nota |-> nota]
    ELSE LET resto(vv) ==
                 IF ~vv.ok THEN vv
                 ELSE IF ~validar_data(vv.nota.data_emissao)
                      THEN [ok |-> FALSE, nota |-> vv.nota]
                 ELSE IF vv.nota.itens # <<>> /\ ~validar_itens(vv.nota.itens)
                      THEN [ok |-> FALSE, nota |-> vv.nota]
                 ELSE [ok |-> TRUE, nota |-> vv.nota]
         IN  resto(validar_valores(nota))

(***************************************************************************)
(* DatabaseManager: the tables notas_fiscais and itens_nota_fiscal are     *)
(* sequences of rows; a row's id is assigned by the database on insert.    *)
(* A database failure is an input of the call: "verificacao" makes the     *)
(* duplicate check raise, "insercao" makes the INSERT of the invoice       *)
(* raise, "item" makes the INSERT of an item raise.                        *)
(***************************************************************************)
\* datetime.now().strftime('%Y%m%d%H%M%S') at second t of the modelled day
TimeStr(t) == "2024010100000" \o DigitChars[t + 1]

\* x or y, for text
StrOr(x, y) == IF x = "" THEN y ELSE x

\* longest chave_acesso salvar_nota_fiscal keeps
ChaveMaxLen == 60

\* the chave_acesso salvar_nota_fiscal checks and stores
ChaveParaSalvar(nota, ts) ==
    LET numero == StrOr(nota.numero, "NF-" \o ts)
        chave  == StrOr(nota.chave_acesso, "CHAVE" \o ts \o numero)
    IN  IF Len(chave) > ChaveMaxLen THEN SubSeq(chave, 1, ChaveMaxLen) ELSE chave

\* variant of the duplicate check that never finds a row
ExisteChaveNunca(notas, chave) == FALSE

\* SELECT id FROM notas_fiscais WHERE chave_acesso = :chave ... fetchone()
ExisteChave(notas, chave) ==
    \E i \in 1..Len(notas) : notas[i].chave_acesso = chave

\* float(nota.valor_total or 0.0): <<value>>, or <<>> for ValueError
FloatValorTotal(v) ==
    IF v.tipo = "float" THEN <<v.num>>
    ELSE IF v.txt = "" THEN <<DecZero>>
    ELSE ParseFloat(v.txt)

\* nf_data
NfData(nota, ts, id, valor) ==
    [id |-> id,
     numero |-> StrOr(nota.numero, "NF-" \o ts),
     serie |-> StrOr(nota.serie, "1"),
     data_emissao |-> IF nota.data_emissao = <<>> THEN 0 ELSE nota.data_emissao[1],
     cnpj_emitente |-> StrOr(nota.cnpj_emitente, "00000000000000"),
     nome_emitente |-> StrOr(nota.nome_emitente, "Emitente não informado"),
     valor_total |-> valor,
     chave_acesso |-> ChaveParaSalvar(nota, ts),
     natureza_operacao |-> StrOr(nota.natureza_operacao, "Operação não informada"),
     origem |-> IF "origem" \in DOMAIN nota THEN nota.origem ELSE "upload"]

\* item_data of one item of the invoice with id nf_id
ItemData(item, nf_id) ==
    [nota_fiscal_id |-> nf_id, codigo |-> item.codigo, descricao |-> item.descricao,
     ncm |-> item.ncm, quantidade |-> item.quantidade,
     valor_unitario |-> item.valor_unitario, valor_total |-> item.valor_total]

\* variant of the insert without a transaction: when the INSERT of the last
\* item raises, the invoice row and the items before it stay
InserirSemTransacao(notas, itens, nota, ts, falha) ==
    LET valor == FloatValorTotal(nota.valor_total)
        nf_id == Len(notas) + 1
    IN  IF valor = <<>>
        THEN [ret |-> "excecao", notas |-> notas, itens |-> itens]
        ELSE IF falha = "insercao"
        THEN [ret |-> "False", notas |-> notas, itens |-> itens]
        ELSE [ret |-> IF falha = "item" /\ nota.itens # <<>> THEN "False" ELSE "True",
              notas |-> Append(notas, NfData(nota, ts, nf_id, valor[1])),
              itens |-> itens \o [i \in 1..(IF falha = "item" /\ nota.itens # <<>>
                                            THEN Len(nota.itens) - 1
                                            ELSE Len(nota.itens)) |->
                                     ItemData(nota.itens[i], nf_id)]]

\* the part of salvar_nota_fiscal after the duplicate check: nf_data, then
\* the transaction that inserts the invoice and its items.  ret is "True",
\* "False", or "excecao" when float() of an unconverted valor_total raises
InserirNota(notas, itens, nota, ts, falha) ==
    LET igual == [ret |-> "False", notas |-> notas, itens |-> itens]
        valor == FloatValorTotal(nota.valor_total)
    IN  IF valor = <<>>
        THEN [ret |-> "excecao", notas |-> notas, itens |-> itens]
        ELSE IF falha = "insercao" THEN igual
        ELSE IF falha = "item" /\ nota.itens # <<>> THEN igual
        ELSE LET nf_id == Len(notas) + 1
             IN  [ret |-> "True",
                  notas |-> Append(notas, NfData(nota, ts, nf_id, valor[1])),
                  itens |-> itens \o [i \in 1..Len(nota.itens) |->
                                         ItemData(nota.itens[i], nf_id)]]

\* variant of the duplicate check that compares numero
DuplicadaPorNumero(notas, nota, ts) ==
    \E i \in 1..Len(notas) : notas[i].numero = StrOr(nota.numero, "NF-" \o ts)

\* the duplicate check of salvar_nota_fiscal, on its own connection
Duplicada(notas, nota, ts) == ExisteChave(notas, ChaveParaSalvar(nota, ts))

\* DatabaseManager.salvar_nota_fiscal
salvar_nota_fiscal(notas, itens, nota, ts, falha) ==
    IF falha = "verificacao"
    THEN [ret |-> "False", notas |-> notas, itens |-> itens]
    ELSE IF Duplicada(notas, nota, ts)
    THEN [ret |-> "False", notas |-> notas, itens |-> itens]
    ELSE InserirNota(notas, itens, nota, ts, falha)

\* variant of buscar_nota_fiscal_por_numero that falls back on the first
\* invoice of the table when no numero matches
BuscarOuPrimeira(notas, numero) ==
    IF notas = <<>> THEN 0
    ELSE IF \E i \in 1..Len(notas) : notas[i].numero = numero
    THEN notas[CHOOSE i \in 1..Len(notas) :
                   /\ notas[i].numero = numero
                   /\ \A j \in 1..(i - 1) : notas[j].numero # numero].id
    ELSE notas[1].id

\* SELECT id FROM notas_fiscais WHERE numero = :numero ... fetchone():
\* 0 stands for None
buscar_nota_fiscal_por_numero(notas, numero) ==
    IF \E i \in 1..Len(notas) : notas[i].numero = numero
    THEN notas[CHOOSE i \in 1..Len(notas) :
                   /\ notas[i].numero = numero
                   /\ \A j \in 1..(i - 1) : notas[j].numero # numero].id
    ELSE 0

(***************************************************************************)
(* DataSanitizer                                                           *)
(***************************************************************************)
\* SecurityConfig.MAX_STRING_LENGTH
MAX_STRING_LENGTH == 1000

\* bleach.clean(value, tags=[], strip=True) on text whose markup is
\* well-formed tags: every <...> span is removed
RECURSIVE StripTags(_, _)
StripTags(s, dentro) ==
    IF s = "" THEN ""
    ELSE IF dentro THEN StripTags(Tail(s), Head(s) # ">")
    ELSE IF Head(s) = "<" /\ Contains(s, ">") THEN StripTags(Tail(s), TRUE)
    ELSE Head(s) \o StripTags(Tail(s), FALSE)

\* re.sub(r'\s+', ' ', value)
RECURSIVE CollapseSpaces(_)
CollapseSpaces(s) ==
    IF Len(s) < 2 THEN s
    ELSE IF Head(s) = " " /\ Ch(s, 2) = " " THEN CollapseSpaces(Tail(s))
    ELSE Head(s) \o CollapseSpaces(Tail(s))

sanitize_string(value) ==
    IF value = "" THEN ""
    ELSE Strip(CollapseSpaces(StripTags(SubSeq(value, 1,
             IF Len(value) > MAX_STRING_LENGTH THEN MAX_STRING_LENGTH ELSE Len(value)),
             FALSE)))

\* the NN.NNN.NNN/NNNN-NN form built by DataSanitizer.sanitize_cnpj
FormatarCnpj(d) ==
    SubSeq(d, 1, 2) \o "." \o SubSeq(d, 3, 5) \o "." \o SubSeq(d, 6, 8)
        \o "/" \o SubSeq(d, 9, 12) \o "-" \o SubSeq(d, 13, 14)

\* "" stands for None
sanitize_cnpj(cnpj) ==
    IF cnpj = "" THEN ""
    ELSE LET cnpj_clean == OnlyDigits(cnpj)
         IN  IF Len(cnpj_clean) # 14 THEN "" ELSE FormatarCnpj(cnpj_clean)

\* variant of sanitize_chave_acesso that cuts the first three characters
\* as the NFe marker
SanitizeCortandoMarcador(chave) ==
    IF chave = "" THEN ""
    ELSE LET chave_clean == OnlyDigits(SubSeq(chave, 4, Len(chave)))
         IN  IF Len(chave_clean) # 44 THEN "" ELSE chave_clean

\* "" stands for None
sanitize_chave_acesso(chave) ==
    IF chave = "" THEN ""
    ELSE LET chave_clean == LimparChave(chave)
         IN  IF Len(chave_clean) # 44 THEN "" ELSE chave_clean

\* re.sub(r'[^\d.,\-]', '', value)
RECURSIVE KeepNumeric(_)
KeepNumeric(s) ==
    IF s = "" THEN ""
    ELSE (IF Head(s) \in Digits \cup {".", ",", "-"} THEN Head(s) ELSE "")
             \o KeepNumeric(Tail(s))

\* sanitize_numeric_value on text
sanitize_numeric_value(value) ==
    LET f == ParseFloat(ReplaceCh(KeepNumeric(value), ",", "."))
    IN  IF f = <<>> THEN DecZero ELSE f[1]

(***************************************************************************)
(* Dates.  "now" is 2024-01-01; the date texts of the inputs are listed    *)
(* with the day each one denotes relative to now.                          *)
(***************************************************************************)
DatasIso == [t \in {"2024-01-01", "2013-12-31", "2024-01-03"} |->
                CASE t = "2024-01-01" -> 0
                  [] t = "2013-12-31" -> 0 - 3654
                  [] t = "2024-01-03" -> 2]

DatasBr == [t \in {"01/01/2024", "31/12/2013", "03/01/2024"} |->
                CASE t = "01/01/2024" -> 0
                  [] t = "31/12/2013" -> 0 - 3654
                  [] t = "03/01/2024" -> 2]

\* datetime.strptime(t, '%Y-%m-%d') / fromisoformat: <<day>>, <<>> = ValueError
ParseIso(t) == IF t \in DOMAIN DatasIso THEN <<DatasIso[t]>> ELSE <<>>

\* datetime.strptime(t, '%d/%m/%Y'): <<day>>, <<>> = ValueError
ParseBr(t) == IF t \in DOMAIN DatasBr THEN <<DatasBr[t]>> ELSE <<>>

\* t.split('T')[0]
RECURSIVE BeforeT(_)
BeforeT(t) == IF t = "" \/ Head(t) = "T" THEN "" ELSE Head(t) \o BeforeT(Tail(t))

(***************************************************************************)
(* PDFExtractor.  A PDF is [legivel, c]: whether pdfplumber can read it and, *)
(* for each pattern of extrair_dados_pdf, what group(1) of its search over *)
(* the page text is (<<>> when the pattern does not match or the group did *)
(* not take part); natureza tells whether the natureza pattern matches.    *)
(***************************************************************************)
\* extrair_valor(pattern, texto, default)
extrair_valor(captura, default) == IF captura = <<>> THEN default ELSE captura[1]

\* <<nota>>, or <<>> for None
extrair_dados_pdf(pdf) ==
    IF ~pdf.legivel THEN <<>>
    ELSE LET cnpj_emitente == extrair_valor(pdf.c.cnpj, "CNPJ 00.111.111/0001-11")
             numero_nf == extrair_valor(pdf.c.numero, "Nº: 0")
             data_emissao == IF pdf.c.data = <<>> THEN <<0>>
                             ELSE IF ParseBr(pdf.c.data[1]) = <<>> THEN <<0>>
                             ELSE ParseBr(pdf.c.data[1])
             serie == extrair_valor(pdf.c.serie, "SÉRIE 0")
             nome_emitente == extrair_valor(pdf.c.emitente, "EMITENTE NÃO ENCONTRADO")
             valor_total == IF pdf.c.valor = <<>> THEN VFloat(DecZero)
                            ELSE VStr(pdf.c.valor[1])
             chave_acesso == extrair_valor(pdf.c.chave,
                  "0000 0000 0000 0000 0000 0000 0000 0000 0000 0000 0000")
         IN  \* the natureza pattern has no group: group(1) raises on a match
             IF pdf.natureza THEN <<>>
             ELSE <<NotaFiscal(numero_nf, serie, data_emissao, cnpj_emitente,
                               nome_emitente, valor_total, chave_acesso,
                               "SEM NATUREZA", <<>>)>>

(***************************************************************************)
(* XMLSecurityValidator / XMLExtractor.  An XML input is                   *)
(*   [tamanho, utf8, bem_formado, raiz, inf]                               *)
(* tamanho: len(xml_content); utf8: it decodes as UTF-8; bem_formado: the  *)
(* parser accepts it; raiz: local tag of the root; inf: the infNFe element *)
(* (optional) as [Id, ide, emit, dest, total, det].  An element with       *)
(* children is a function from child tag to text; ide, emit, dest are      *)
(* optional elements, total is an optional element holding an optional     *)
(* ICMSTot, det is the list of det elements, each an optional prod.        *)
(***************************************************************************)
\* SecurityConfig.MAX_XML_SIZE = 10 * 1024 * 1024
MAX_XML_SIZE == 10485760

\* _get_text_safe(element, tag, ns)
get_text_safe(element, tag) ==
    IF element = <<>> THEN ""
    ELSE IF tag \in DOMAIN element[1] THEN element[1][tag] ELSE ""

\* bool(element): an element without children is falsy
Truthy(element) == element # <<>> /\ DOMAIN element[1] # {}

\* _parse_date_safe
parse_date_safe(date_str) ==
    IF date_str = "" THEN <<>> ELSE ParseIso(BeforeT(sanitize_string(date_str)))

\* variant of _extrair_itens_seguros that keeps the last MAX_ITEMS_PER_NF
\* det elements (det_elements[-MAX_ITEMS_PER_NF:])
ExtrairUltimosItens(det) ==
    LET det_elements == IF Len(det) > MAX_ITEMS_PER_NF
                        THEN SubSeq(det, Len(det) - MAX_ITEMS_PER_NF + 1, Len(det))
                        ELSE det
        com_prod == SelectSeq(det_elements, LAMBDA d : d # <<>>)
    IN  [i \in 1..Len(com_prod) |->
            [codigo |-> sanitize_string(get_text_safe(com_prod[i], "cProd")),
             descricao |-> sanitize_string(get_text_safe(com_prod[i], "xProd")),
             ncm |-> sanitize_string(get_text_safe(com_prod[i], "NCM")),
             quantidade |-> sanitize_numeric_value(get_text_safe(com_prod[i], "qCom")),
             valor_unitario |-> sanitize_numeric_value(get_text_safe(com_prod[i], "vUnCom")),
             valor_total |-> sanitize_numeric_value(get_text_safe(com_prod[i], "vProd"))]]

\* _extrair_itens_seguros
extrair_itens_seguros(det) ==
    LET det_elements == IF Len(det) > MAX_ITEMS_PER_NF
                        THEN SubSeq(det, 1, MAX_ITEMS_PER_NF) ELSE det
        com_prod == SelectSeq(det_elements, LAMBDA d : d # <<>>)
    IN  [i \in 1..Len(com_prod) |->
            [codigo |-> sanitize_string(get_text_safe(com_prod[i], "cProd")),
             descricao |-> sanitize_string(get_text_safe(com_prod[i], "xProd")),
             ncm |-> sanitize_string(get_text_safe(com_prod[i], "NCM")),
             quantidade |-> sanitize_numeric_value(get_text_safe(com_prod[i], "qCom")),
             valor_unitario |-> sanitize_numeric_value(get_text_safe(com_prod[i], "vUnCom")),
             valor_total |-> sanitize_numeric_value(get_text_safe(com_prod[i], "vProd"))]]

\* XMLSecurityValidator.parse_xml_safely: TRUE when a root is returned
parse_xml_safely(xml) ==
    IF xml.tamanho > MAX_XML_SIZE THEN FALSE
    ELSE IF ~xml.utf8 THEN FALSE
    ELSE IF ~xml.bem_formado THEN FALSE
    ELSE IF xml.raiz \notin {"nfeProc", "NFe"} THEN FALSE
    ELSE xml.inf # <<>>

\* XMLExtractor._extrair_dados_seguros: <<nota>>, or <<>> for None
extrair_dados_seguros(xml) ==
    IF xml.inf = <<>> THEN <<>>
    ELSE LET inf_nfe == xml.inf[1]
             ide == inf_nfe.ide
             emit == inf_nfe.emit
             dest == inf_nfe.dest
             total == inf_nfe.total
         IN  IF ~(Truthy(ide) /\ Truthy(emit) /\ total # <<>> /\ total[1] # <<>>)
             THEN <<>>
             ELSE LET icms_tot == total[1]
                      base == NotaFiscal(
                          sanitize_string(get_text_safe(ide, "nNF")),
                          sanitize_string(get_text_safe(ide, "serie")),
                          parse_date_safe(get_text_safe(ide, "dhEmi")),
                          sanitize_cnpj(get_text_safe(emit, "CNPJ")),
                          sanitize_string(get_text_safe(emit, "xNome")),
                          VFloat(sanitize_numeric_value(get_text_safe(icms_tot, "vNF"))),
                          sanitize_chave_acesso(RemoveSub(inf_nfe.Id, "NFe")),
                          sanitize_string(get_text_safe(ide, "natOp")),
                          extrair_itens_seguros(inf_nfe.det))
                  IN  <<[base EXCEPT
                         !.valor_icms = sanitize_numeric_value(get_text_safe(icms_tot, "vICMS")),
                         !.valor_ipi = sanitize_numeric_value(get_text_safe(icms_tot, "vIPI")),
                         !.valor_pis = sanitize_numeric_value(get_text_safe(icms_tot, "vPIS")),
                         !.valor_cofins = sanitize_numeric_value(get_text_safe(icms_tot, "vCOFINS"))]>>

\* variant of extrair_dados_xml that, like extrair_dados_pdf, fills a record
\* with defaults when the infNFe element is missing
ExtrairXmlComPadroes(xml) ==
    IF xml.tamanho > MAX_XML_SIZE \/ ~xml.utf8 \/ ~xml.bem_formado THEN <<>>
    ELSE IF xml.inf = <<>>
    THEN <<NotaFiscal("0", "0", <<0>>, "", "EMITENTE NÃO ENCONTRADO",
                      VFloat(DecZero), "", "SEM NATUREZA", <<>>)>>
    ELSE extrair_dados_seguros(xml)

\* XMLExtractor.extrair_dados_xml: <<nota>>, or <<>> for None
extrair_dados_xml(xml) ==
    IF ~parse_xml_safely(xml) THEN <<>> ELSE extrair_dados_seguros(xml)

(***************************************************************************)
(* Dashboard: tabular files.  A parsed CSV is [legivel, colunas, linhas]:  *)
(* legivel is FALSE when no delimiter yields a DataFrame; colunas is       *)
(* df.columns; each line maps a column to str() of its cell.               *)
(***************************************************************************)
\* str(row.get(col, default))
Cell(row, col, default) == IF col \in DOMAIN row THEN row[col] ELSE default

SeqToSet(q) == {q[i] : i \in 1..Len(q)}

\* first name of `nomes` that is a column: <<name>>, or <<>>
PrimeiraColuna(nomes, colunas) ==
    IF \E i \in 1..Len(nomes) : nomes[i] \in colunas
    THEN <<nomes[CHOOSE i \in 1..Len(nomes) :
                    /\ nomes[i] \in colunas
                    /\ \A j \in 1..(i - 1) : nomes[j] \notin colunas]>>
    ELSE <<>>

\* mapeamento_colunas of _processar_csv_cabecalho
mapeamento_colunas ==
    [numero |-> <<"numero", "NÚMERO", "nf_numero", "numero_nf", "num_nf", "NF_NUMERO">>,
     serie |-> <<"serie", "SÉRIE", "serie_nf", "nf_serie", "SERIE_NF">>,
     cnpj_emitente |-> <<"cnpj_emitente", "CNPJ_EMITENTE", "cnpj_emit",
                         "emitente_cnpj", "CPF/CNPJ Emitente">>,
     nome_emitente |-> <<"nome_emitente", "NOME_EMITENTE", "razao_emitente",
                         "emitente_nome", "NOME EMITENTE", "RAZÃO SOCIAL EMITENTE">>,
     data_emissao |-> <<"data_emissao", "DATA_EMISSAO", "dt_emissao", "data_emiss",
                        "DATA EMISSÃO">>,
     valor_total |-> <<"valor_total", "VALOR_TOTAL", "vl_total", "total_nf",
                       "VALOR NOTA FISCAL">>,
     chave_acesso |-> <<"chave_acesso", "CHAVE_ACESSO", "chave_nfe", "chave",
                        "CHAVE DE ACESSO">>,
     natureza_operacao |-> <<"natureza_operacao", "NATUREZA_OPERACAO", "nat_operacao",
                             "cfop", "NATUREZA DA OPERAÇÃO">>]

\* variant of `essenciais` that also asks for the issue date
EssenciaisComData == <<"numero", "cnpj_emitente", "nome_emitente", "data_emissao">>

\* the order in which `essenciais` lists the header fields
EssenciaisCabecalho == <<"numero", "cnpj_emitente", "nome_emitente">>

\* the date of a CSV row: '/' selects %d/%m/%Y, '-' selects %Y-%m-%d;
\* <<>> stands for ValueError, <<0>> is datetime.now()
DataCsv(texto) ==
    IF Contains(texto, "/") THEN ParseBr(texto)
    ELSE IF Contains(texto, "-") THEN ParseIso(texto)
    ELSE <<0>>

\* result of a CSV handler: ret is "lista" (notas holds the list) or "none"
CsvRes(ret, notas, itens, st, buscas, salvos) ==
    [ret |-> ret, notas |-> notas, itens |-> itens, st |-> st,
     buscas |-> buscas, salvos |-> salvos]

\* one row of a header file
NotaDeCabecalho(row, col) ==
    LET data == IF col.data_emissao = <<>> THEN <<0>>
                ELSE LET d == DataCsv(Cell(row, col.data_emissao[1], ""))
                     IN IF d = <<>> THEN <<0>> ELSE d
        valor == IF col.valor_total = <<>> THEN DecZero
                 ELSE LET f == ParseFloat(ReplaceCh(Cell(row, col.valor_total[1], "0"),
                                                    ",", "."))
                      IN IF f = <<>> THEN DecZero ELSE f[1]
        opc(campo, default) == IF col[campo] = <<>> THEN default
                               ELSE Cell(row, col[campo][1], default)
    IN  NotaFiscal(Cell(row, col.numero[1], ""),
                   opc("serie", "1"),
                   data,
                   Cell(row, col.cnpj_emitente[1], ""),
                   Cell(row, col.nome_emitente[1], ""),
                   VFloat(valor),
                   opc("chave_acesso", ""),
                   opc("natureza_operacao", ""),
                   <<>>)

\* ', '.join(faltantes)
RECURSIVE Join(_)
Join(q) == IF q = <<>> THEN ""
           ELSE IF Len(q) = 1 THEN q[1]
           ELSE q[1] \o ", " \o Join(Tail(q))

\* variant of _processar_csv_cabecalho that warns of the missing fields and
\* goes on to build a record from every row, an unmapped field left empty
CabecalhoSemAbortar(df, itens) ==
    LET colunas == SeqToSet(df.colunas)
        col == [campo \in DOMAIN mapeamento_colunas |->
                   PrimeiraColuna(mapeamento_colunas[campo], colunas)]
        faltantes == SelectSeq(EssenciaisCabecalho, LAMBDA campo : col[campo] = <<>>)
        opc(row, campo) == IF col[campo] = <<>> THEN ""
                           ELSE Cell(row, col[campo][1], "")
    IN  CsvRes("lista",
               [i \in 1..Len(df.linhas) |->
                   NotaFiscal(opc(df.linhas[i], "numero"), "1", <<0>>,
                              opc(df.linhas[i], "cnpj_emitente"),
                              opc(df.linhas[i], "nome_emitente"),
                              VFloat(DecZero), "", "", <<>>)],
               itens,
               IF faltantes # <<>>
               THEN <<"warning: Campos essenciais não encontrados: " \o Join(faltantes)>>
               ELSE <<>>,
               0, 0)

\* Dashboard._processar_csv_cabecalho
processar_csv_cabecalho(df, itens) ==
    LET colunas == SeqToSet(df.colunas)
        col == [campo \in DOMAIN mapeamento_colunas |->
                   PrimeiraColuna(mapeamento_colunas[campo], colunas)]
        faltantes == SelectSeq(EssenciaisCabecalho, LAMBDA campo : col[campo] = <<>>)
    IN  IF faltantes # <<>>
        THEN CsvRes("lista", <<>>, itens,
                    <<"warning: Campos essenciais não encontrados: " \o Join(faltantes)>>,
                    0, 0)
        ELSE CsvRes("lista",
                    [i \in 1..Len(df.linhas) |-> NotaDeCabecalho(df.linhas[i], col)],
                    itens, <<>>, 0, 0)

\* colunas_obrigatorias of _processar_csv_tradicional
ColunasObrigatorias == <<"numero", "cnpj_emitente", "nome_emitente",
                         "data_emissao", "valor_total">>

\* one row of a flat file: <<nota>>, or <<>> when float() raises and the
\* row is skipped
NotaTradicional(row) ==
    LET d == DataCsv(Cell(row, "data_emissao", ""))
        f == ParseFloat(Cell(row, "valor_total", "0"))
    IN  IF f = <<>> THEN <<>>
        ELSE <<NotaFiscal(Cell(row, "numero", ""), Cell(row, "serie", "1"),
                          IF d = <<>> THEN <<0>> ELSE d,
                          Cell(row, "cnpj_emitente", ""), Cell(row, "nome_emitente", ""),
                          VFloat(f[1]), Cell(row, "chave_acesso", ""),
                          Cell(row, "natureza_operacao", ""), <<>>)>>

RECURSIVE Flatten(_)
Flatten(q) == IF q = <<>> THEN <<>> ELSE q[1] \o Flatten(Tail(q))

\* Dashboard._processar_csv_tradicional
processar_csv_tradicional(df, itens) ==
    LET faltantes == SelectSeq(ColunasObrigatorias,
                               LAMBDA c : c \notin SeqToSet(df.colunas))
    IN  IF faltantes # <<>>
        THEN CsvRes("lista", <<>>, itens,
                    <<"warning: Colunas obrigatórias faltantes: " \o Join(faltantes)>>,
                    0, 0)
        ELSE CsvRes("lista",
                    Flatten([i \in 1..Len(df.linhas) |-> NotaTradicional(df.linhas[i])]),
                    itens, <<>>, 0, 0)

(***************************************************************************)
(* Dashboard: items files                                                  *)
(***************************************************************************)
ComAcento == "áàâãäéèêëíìîïóòôõöúùûüçÁÀÂÃÄÉÈÊËÍÌÎÏÓÒÔÕÖÚÙÛÜÇ"
SemAcento == "aaaaaeeeeiiiiooooouuuucAAAAAEEEEIIIIOOOOOUUUUC"

\* the base letter of every accented letter
SemAcentoDe == [c \in {Ch(ComAcento, i) : i \in 1..Len(ComAcento)} |->
                   Ch(SemAcento, CHOOSE i \in 1..Len(ComAcento) : Ch(ComAcento, i) = c)]

\* unicodedata.normalize('NFKD', c) without the combining marks
SemAcentoCh(c) == IF c \in DOMAIN SemAcentoDe THEN SemAcentoDe[c] ELSE c

RECURSIVE MapNome(_)
MapNome(s) ==
    IF s = "" THEN ""
    ELSE LET c == LowerCh(SemAcentoCh(Head(s)))
         IN  (IF c \in {"/", "-", ".", ":"} THEN " " ELSE c) \o MapNome(Tail(s))

\* normalizar_nome_coluna
normalizar_nome_coluna(nome) ==
    ReplaceCh(Strip(CollapseSpaces(MapNome(nome))), " ", "_")

\* variant of the count that is never zero
ContarNotasMaisUm(notas) == Len(notas) + 1

\* SELECT COUNT(*) FROM notas_fiscais
ContarNotas(notas) == Len(notas)

\* sinonimos of _processar_csv_itens
sinonimos ==
    [numero_nf |-> <<"numero_nf", "numero", "nf_numero", "numero_nota_fiscal",
                     "num_nf", "numero_da_nota_fiscal">>,
     codigo_produto |-> <<"codigo_produto", "codigo", "cod_produto", "cprod",
                          "numero_produto", "num_produto", "codigo_item",
                          "codigo_do_produto", "numero_do_produto">>,
     descricao |-> <<"descricao", "descricao_produto", "xprod", "produto",
                     "descricao_do_produto", "descricao_do_item", "descricao_item",
                     "item_descricao", "descricao_prod", "descricao_do_produto_servico",
                     "descricao_produto_servico", "produto_servico">>,
     ncm |-> <<"ncm", "codigo_ncm", "codigo_ncm_sh", "codigo_ncmsh", "ncm_sh",
               "ncmsh", "codigo_ncm_sh">>,
     quantidade |-> <<"quantidade", "qtd", "qtde", "qcom", "quantidade_item">>,
     valor_unitario |-> <<"valor_unitario", "vl_unitario", "preco_unitario", "vuncom",
                          "valor_unitario_item", "preco_unitario_item">>,
     valor_total |-> <<"valor_total", "vl_total", "total_item", "vprod",
                       "valor_total_item">>]

EssenciaisItens == <<"numero_nf", "codigo_produto", "descricao">>

\* colunas_encontradas[campo]: <<column>>, or <<>>.  normalizadas[i] is
\* normalizar_nome_coluna(colunas[i]); mapa_colunas_normalizadas keeps, for
\* an alias, the last column whose normalised name it is
ColunaDoCampo(colunas, normalizadas, campo) ==
    LET alias == PrimeiraColuna(sinonimos[campo], SeqToSet(normalizadas))
    IN  IF alias = <<>> THEN <<>>
        ELSE <<colunas[CHOOSE i \in 1..Len(colunas) :
                          /\ normalizadas[i] = alias[1]
                          /\ \A j \in (i + 1)..Len(colunas) :
                                normalizadas[j] # alias[1]]>>

\* converter_valor_numerico
converter_valor_numerico(valor) ==
    LET ajustado(limpo) == IF Contains(limpo, ",") /\ Contains(limpo, ".")
                           THEN ReplaceCh(RemoveSub(limpo, "."), ",", ".")
                           ELSE IF Contains(limpo, ",") THEN ReplaceCh(limpo, ",", ".")
                           ELSE limpo
        convertido(valor_str, f) == IF valor_str = "" THEN DecZero
                                    ELSE IF f = <<>> THEN DecZero ELSE f[1]
    IN  convertido(Strip(valor), ParseFloat(ajustado(KeepNumeric(Strip(valor)))))

\* quantidade * valor_unitario for non-negative values, rounded down to
\* hundredths
DecMul(a, b) ==
    LET p == (a.r * 100 + a.c) * (b.r * 100 + b.c)
    IN  Dec(1, p \div 10000, (p \div 100) % 100)

\* DatabaseManager.salvar_item_nota_fiscal
salvar_item_nota_fiscal(itens, item_data, falha) ==
    IF falha = "item" THEN [ok |-> FALSE, itens |-> itens]
    ELSE [ok |-> TRUE, itens |-> Append(itens, item_data)]

\* the body of "for index, row in df.iterrows()": acc is
\* [itens, processados, erros, buscas]
LinhaDeItem(row, col, notas, acc, falha) ==
    LET opc(campo) == IF col[campo] = <<>> THEN Cell(row, campo, "0")
                      ELSE Cell(row, col[campo][1], "0")
        valor_total(lido, quantidade, valor_unitario) ==
            IF DecIsZero(lido) /\ DecPos(quantidade) /\ DecPos(valor_unitario)
            THEN DecMul(quantidade, valor_unitario) ELSE lido
        item_data(nota_fiscal_id, codigo_produto, descricao, ncm,
                  quantidade, valor_unitario, lido) ==
            [nota_fiscal_id |-> nota_fiscal_id,
             codigo |-> SubSeq(codigo_produto, 1,
                          IF Len(codigo_produto) > 100 THEN 100
                          ELSE Len(codigo_produto)),
             descricao |-> SubSeq(descricao, 1,
                          IF Len(descricao) > 1000 THEN 1000 ELSE Len(descricao)),
             ncm |-> SubSeq(ncm, 1, IF Len(ncm) > 20 THEN 20 ELSE Len(ncm)),
             quantidade |-> quantidade,
             valor_unitario |-> valor_unitario,
             valor_total |-> valor_total(lido, quantidade, valor_unitario)]
        gravar(salvo) ==
            IF salvo.ok
            THEN [acc EXCEPT !.itens = salvo.itens, !.processados = @ + 1,
                             !.buscas = @ + 1]
            ELSE [acc EXCEPT !.erros = @ + 1, !.buscas = @ + 1]
        linha(numero_nf, nota_fiscal_id, codigo_produto, descricao) ==
            IF numero_nf = "" THEN acc
            ELSE IF nota_fiscal_id = 0
                 THEN [acc EXCEPT !.erros = @ + 1, !.buscas = @ + 1]
            ELSE IF codigo_produto = "" /\ descricao = ""
                 THEN [acc EXCEPT !.erros = @ + 1, !.buscas = @ + 1]
            ELSE gravar(salvar_item_nota_fiscal(acc.itens,
                     item_data(nota_fiscal_id, codigo_produto, descricao,
                               IF col.ncm = <<>> THEN Cell(row, "ncm", "")
                               ELSE Cell(row, col.ncm[1], ""),
                               converter_valor_numerico(opc("quantidade")),
                               converter_valor_numerico(opc("valor_unitario")),
                               converter_valor_numerico(opc("valor_total"))),
                     falha))
        com_numero(numero_nf) ==
            linha(numero_nf, buscar_nota_fiscal_por_numero(notas, numero_nf),
                  Strip(Cell(row, col.codigo_produto[1], "")),
                  Strip(Cell(row, col.descricao[1], "")))
    IN  com_numero(Strip(Cell(row, col.numero_nf[1], "")))

RECURSIVE LinhasDeItens(_, _, _, _, _, _)
LinhasDeItens(linhas, i, col, notas, acc, falha) ==
    IF i > Len(linhas) THEN acc
    ELSE LinhasDeItens(linhas, i + 1, col, notas,
                       LinhaDeItem(linhas[i], col, notas, acc, falha), falha)

\* variant of _processar_csv_itens that returns None when no row of the
\* file could be stored
ItensNoneSemSucesso(df, notas, itens, falha) ==
    LET normalizadas == [i \in 1..Len(df.colunas) |->
                            normalizar_nome_coluna(df.colunas[i])]
        col == [campo \in DOMAIN sinonimos |->
                   ColunaDoCampo(df.colunas, normalizadas, campo)]
        faltantes == SelectSeq(EssenciaisItens, LAMBDA campo : col[campo] = <<>>)
        resultado(fim) ==
            CsvRes(IF fim.processados = 0 THEN "none" ELSE "lista", <<>>, fim.itens,
                   <<>>, fim.buscas, fim.processados)
    IN  IF faltantes # <<>> \/ (falha # "contagem" /\ ContarNotas(notas) = 0)
        THEN CsvRes("lista", <<>>, itens, <<>>, 0, 0)
        ELSE resultado(LinhasDeItens(df.linhas, 1, col, notas,
                           [itens |-> itens, processados |-> 0, erros |-> 0,
                            buscas |-> 0], falha))

\* Dashboard._processar_csv_itens
processar_csv_itens(df, notas, itens, falha) ==
    LET normalizadas == [i \in 1..Len(df.colunas) |->
                            normalizar_nome_coluna(df.colunas[i])]
        col == [campo \in DOMAIN sinonimos |->
                   ColunaDoCampo(df.colunas, normalizadas, campo)]
        faltantes == SelectSeq(EssenciaisItens, LAMBDA campo : col[campo] = <<>>)
    IN  IF faltantes # <<>>
        THEN CsvRes("lista", <<>>, itens,
                    <<"warning: Campos essenciais não encontrados: " \o Join(faltantes)>>,
                    0, 0)
        ELSE IF falha # "contagem" /\ ContarNotas(notas) = 0
        THEN CsvRes("lista", <<>>, itens,
                    <<"error: Nenhuma nota fiscal encontrada no banco de dados">>, 0, 0)
        ELSE LET resultado(fim) ==
                     CsvRes("lista", <<>>, fim.itens,
                        (IF fim.processados > 0
                         THEN <<"success: itens processados com sucesso">> ELSE <<>>)
                        \o (IF fim.erros > 0
                            THEN <<"warning: itens com erro no processamento">> ELSE <<>>),
                        fim.buscas, fim.processados)
             IN  resultado(LinhasDeItens(df.linhas, 1, col, notas,
                               [itens |-> itens, processados |-> 0, erros |-> 0,
                                buscas |-> 0], falha))

\* the role processar_csv_upload gives a file name
PapelCsv(filename) ==
    LET filename_lower == Lower(filename)
    IN  IF Contains(filename_lower, "cabecalho") \/ Contains(filename_lower, "header")
        THEN "cabecalho"
        ELSE IF Contains(filename_lower, "itens") \/ Contains(filename_lower, "items")
        THEN "itens"
        ELSE "tradicional"

ComSt(r, antes) == [r EXCEPT !.st = antes \o @]

\* Dashboard.processar_csv_upload; falha = "contagem" makes COUNT(*) raise
processar_csv_upload(df, filename, notas, itens, falha) ==
    IF ~df.legivel \/ df.linhas = <<>>
    THEN CsvRes("none", <<>>, itens,
                <<"error: Não foi possível processar o arquivo CSV: " \o filename>>, 0, 0)
    ELSE IF PapelCsv(filename) = "cabecalho"
    THEN ComSt(processar_csv_cabecalho(df, itens),
               <<"info: Processando arquivo de CABEÇALHO: " \o filename>>)
    ELSE IF PapelCsv(filename) = "itens"
    THEN IF falha = "contagem"
         THEN CsvRes("lista", <<>>, itens,
                     <<"error: Erro ao verificar banco de dados">>, 0, 0)
         ELSE IF ContarNotas(notas) = 0
         THEN CsvRes("lista", <<>>, itens,
                     <<"error: BLOQUEADO: Arquivo de itens '" \o filename
                          \o "' não pode ser processado!",
                       "error: MOTIVO: Nenhuma nota fiscal encontrada no banco de dados.",
                       "error: SOLUÇÃO: Processe primeiro o arquivo de cabeçalho.">>, 0, 0)
         ELSE ComSt(processar_csv_itens(df, notas, itens, falha),
                    <<"success: Pré-validação OK",
                      "info: Processando arquivo de ITENS: " \o filename>>)
    ELSE ComSt(processar_csv_tradicional(df, itens),
               <<"info: Processando arquivo CSV tradicional: " \o filename>>)

(***************************************************************************)
(* Dashboard: uploads.  The state a handler works on is a record           *)
(*   [notas, itens, processados, erros, detalhes, st, ...]                 *)
(* notas, itens: the two tables; processados, erros, detalhes: resultados; *)
(* st: the messages shown; ok: the value returned by the last save.        *)
(* The remaining fields are a history of the call: salvamentos lists the   *)
(* calls of DatabaseManager.salvar_nota_fiscal, persistidas the record     *)
(* each stored invoice came from and whether ValidadorNF accepted it,      *)
(* eventos what handling each document did, csv and buscas whether         *)
(* processar_csv_upload ran for the current document and how many rows it  *)
(* looked up.                                                              *)
(* A file is [nome, lido, conteudo]: lido is FALSE when reading it raises; *)
(* conteudo is what the parser chosen by the extension sees.  In detalhes   *)
(* "[v]", "[x]" and "[!]" stand for the check, cross and warning marks.    *)
(***************************************************************************)
\* one call of DatabaseManager.salvar_nota_fiscal, recorded
ChamarSalvar(est, nota, validada, ts, falha) ==
    LET registrado(r, chave) ==
            [est EXCEPT
               !.notas = r.notas,
               !.itens = r.itens,
               !.ret = r.ret,
               !.persistidas = IF r.ret = "True"
                               THEN Append(@, [nota |-> nota, validada |-> validada])
                               ELSE @,
               !.salvamentos = Append(@,
                   [chave |-> chave,
                    existia |-> \E i \in 1..Len(est.notas) :
                                   est.notas[i].chave_acesso = chave,
                    ret |-> r.ret,
                    notas_ins |-> Len(r.notas) - Len(est.notas),
                    itens_ins |-> Len(r.itens) - Len(est.itens)])]
    IN  registrado(salvar_nota_fiscal(est.notas, est.itens, nota, ts, falha),
                   ChaveParaSalvar(nota, ts))

\* Dashboard.salvar_nota_fiscal: an exception of the call counts as False
Dashboard_salvar_nota_fiscal(est, nota_fiscal, ts, falha) ==
    LET retorno(e) == [e EXCEPT !.ok = (e.ret = "True")]
    IN  retorno(ChamarSalvar(est, nota_fiscal, FALSE, ts, falha))

Processado(est) == [est EXCEPT !.processados = @ + 1]
Erro(est) == [est EXCEPT !.erros = @ + 1]
Detalhe(est, texto) == [est EXCEPT !.detalhes = Append(@, texto)]

\* "for nota in notas_csv: if self.salvar_nota_fiscal(nota): ..."
RECURSIVE SalvarNotasCsv(_, _, _, _, _)
SalvarNotasCsv(est, notas_csv, i, ts, falha) ==
    IF i > Len(notas_csv) THEN est
    ELSE LET contado(e) == IF e.ok THEN Processado(e) ELSE Erro(e)
         IN  SalvarNotasCsv(
                 contado(Dashboard_salvar_nota_fiscal(est, notas_csv[i], ts, falha)),
                 notas_csv, i + 1, ts, falha)

\* "Salvar nota fiscal individual (PDF/XML)": nota_fiscal is <<nota>> or <<>>
SalvarIndividual(est, nome, nota_fiscal, ts, falha) ==
    IF nota_fiscal = <<>>
    THEN Detalhe(Erro(est), "[x] " \o nome \o ": Erro no processamento")
    ELSE LET contado(e) ==
                 IF e.ok
                 THEN Detalhe(Processado(e), "[v] " \o nome \o ": Processado com sucesso")
                 ELSE Detalhe(Erro(e), "[x] " \o nome \o ": Erro ao salvar no banco")
         IN  contado(Dashboard_salvar_nota_fiscal(est, nota_fiscal[1], ts, falha))

\* the effect of processar_csv_upload on the tables and the messages
AplicarCsv(est, r) ==
    [est EXCEPT !.itens = r.itens, !.st = @ \o r.st, !.csv = TRUE, !.buscas = r.buscas]

\* what handling one document did, from the state before and after it
Evento(nome, antes, depois) ==
    [nome |-> nome,
     notas_antes |-> Len(antes.notas),
     inseridas |-> Len(depois.notas) - Len(antes.notas),
     itens_salvos |-> Len(depois.itens) - Len(antes.itens),
     erros |-> depois.erros - antes.erros,
     processados |-> depois.processados - antes.processados,
     detalhes |-> SubSeq(depois.detalhes, Len(antes.detalhes) + 1, Len(depois.detalhes)),
     st |-> SubSeq(depois.st, Len(antes.st) + 1, Len(depois.st)),
     csv |-> depois.csv,
     buscas |-> depois.buscas,
     duplicadas |-> Len(SelectSeq(SubSeq(depois.salvamentos, Len(antes.salvamentos) + 1,
                                         Len(depois.salvamentos)),
                                  LAMBDA sv : sv.existia))]

Registrar(nome, antes, depois) ==
    [depois EXCEPT !.eventos = Append(@, Evento(nome, antes, depois))]

Comecar(est) == [est EXCEPT !.csv = FALSE, !.buscas = 0]

(***************************************************************************)
(* Dashboard.processar_zip_upload.  A bundle is [valido, entradas]:        *)
(* valido is FALSE when zipfile rejects the bytes; entradas are the        *)
(* entries in namelist() order.  The counters of the bundle are added to   *)
(* those of the caller, as processar_arquivos_upload does with the result. *)
(***************************************************************************)
\* variant that looks for the items keywords first
ClassificarArquivoItensPrimeiro(file_name) ==
    LET file_lower == Lower(file_name)
    IN  IF Contains(file_lower, "itens") \/ Contains(file_lower, "items")
        THEN "cabecalho"
        ELSE IF Contains(file_lower, "cabecalho") \/ Contains(file_lower, "header")
        THEN "itens"
        ELSE "outros"

\* the list an entry name is appended to
ClassificarArquivo(file_name) ==
    LET file_lower == Lower(file_name)
    IN  IF Contains(file_lower, "cabecalho") \/ Contains(file_lower, "header")
        THEN "cabecalho"
        ELSE IF Contains(file_lower, "itens") \/ Contains(file_lower, "items")
        THEN "itens"
        ELSE "outros"

\* arquivos_cabecalho, arquivos_itens, outros_arquivos
ArquivosDaClasse(file_list, classe) ==
    SelectSeq(file_list, LAMBDA f : /\ ~EndsWith(f.nome, "/")
                                    /\ ClassificarArquivo(f.nome) = classe)

\* variant that puts the items files before the other files
ArquivosOrdenadosItensAntes(arquivos_cabecalho, outros_arquivos, arquivos_itens) ==
    arquivos_cabecalho \o arquivos_itens \o outros_arquivos

\* arquivos_ordenados
arquivos_ordenados(arquivos_cabecalho, outros_arquivos, arquivos_itens) ==
    arquivos_cabecalho \o outros_arquivos \o arquivos_itens

\* variant of the loop body without the test of the extension: an entry
\* that is neither pdf nor xml falls through to the save of nota_fiscal,
\* which is still None
ProcessarEntradaSemFiltro(est0, f, ts, falha) ==
    IF EndsWith(f.nome, "/") THEN Comecar(est0)
    ELSE SalvarIndividual(Comecar(est0), f.nome,
             IF f.lido /\ AfterLastDot(Lower(f.nome)) = "pdf"
             THEN extrair_dados_pdf(f.conteudo)
             ELSE IF f.lido /\ AfterLastDot(Lower(f.nome)) = "xml"
             THEN extrair_dados_xml(f.conteudo)
             ELSE <<>>,
             ts, falha)

\* the body of "for file_name in arquivos_ordenados"
ProcessarEntrada(est0, f, ts, falha) ==
    LET est == Comecar(est0)
        file_extension == AfterLastDot(Lower(f.nome))
        is_items_file == Contains(Lower(f.nome), "itens") \/ Contains(Lower(f.nome), "items")
    IN  IF EndsWith(f.nome, "/") THEN est
        ELSE IF file_extension \notin {"pdf", "xml", "csv"}
        THEN Detalhe(est, "[!] " \o f.nome \o ": Tipo de arquivo não suportado")
        ELSE IF ~f.lido
        THEN Detalhe(Erro(est), "[x] " \o f.nome \o ": erro de leitura")
        ELSE IF file_extension \in {"pdf", "xml"}
        THEN SalvarIndividual(est, f.nome,
                 IF file_extension = "pdf" THEN extrair_dados_pdf(f.conteudo)
                 ELSE extrair_dados_xml(f.conteudo),
                 ts, falha)
        ELSE LET csv(r, e) ==
                 IF r.ret = "none"
                 THEN Detalhe(Erro(e), "[x] " \o f.nome \o ": Erro no processamento")
                 ELSE IF r.notas # <<>>
                 THEN Detalhe(SalvarNotasCsv(e, r.notas, 1, ts, falha),
                              "[v] " \o f.nome \o ": nota(s) processada(s)")
                 ELSE IF is_items_file
                 THEN Detalhe(Processado(e),
                              "[v] " \o f.nome \o ": Itens processados com sucesso")
                 ELSE Detalhe(Erro(e), "[x] " \o f.nome \o ": Nenhum dado válido encontrado")
                 lido(r) == csv(r, AplicarCsv(est, r))
             IN  lido(processar_csv_upload(f.conteudo, f.nome, est.notas, est.itens, falha))

RECURSIVE ProcessarEntradas(_, _, _, _, _)
ProcessarEntradas(est, arquivos, i, ts, falha) ==
    IF i > Len(arquivos) THEN est
    ELSE ProcessarEntradas(
             Registrar(arquivos[i].nome, est, ProcessarEntrada(est, arquivos[i], ts, falha)),
             arquivos, i + 1, ts, falha)

processar_zip_upload(est, zip, filename, ts, falha) ==
    IF ~zip.valido
    THEN Registrar(filename, est,
             [Detalhe(Erro(Comecar(est)),
                      "[x] " \o filename \o ": Arquivo ZIP corrompido ou inválido")
                EXCEPT !.st = Append(@, "error: Arquivo ZIP '" \o filename
                                          \o "' está corrompido")])
    ELSE ProcessarEntradas(
             est,
             arquivos_ordenados(ArquivosDaClasse(zip.entradas, "cabecalho"),
                                ArquivosDaClasse(zip.entradas, "outros"),
                                ArquivosDaClasse(zip.entradas, "itens")),
             1, ts, falha)

(***************************************************************************)
(* Dashboard.processar_arquivos_upload                                     *)
(***************************************************************************)
\* the body of "for i, uploaded_file in enumerate(uploaded_files)" for a
\* file that is not a bundle
ProcessarArquivo(est0, f, ts, falha) ==
    LET est == Comecar(est0)
        file_extension == AfterLastDot(Lower(f.nome))
    IN  IF ~f.lido
        THEN Detalhe(Erro(est), "[x] " \o f.nome \o ": erro de leitura")
        ELSE IF file_extension = "csv"
        THEN LET csv(r, e) ==
                 IF r.ret = "lista" /\ r.notas # <<>>
                 THEN SalvarNotasCsv(e, r.notas, 1, ts, falha)
                 ELSE Detalhe(Erro(e), "[x] " \o f.nome \o ": Erro no processamento")
                 lido(r) == csv(r, AplicarCsv(est, r))
             IN  lido(processar_csv_upload(f.conteudo, f.nome, est.notas, est.itens, falha))
        ELSE SalvarIndividual(est, f.nome,
                 IF file_extension = "pdf" THEN extrair_dados_pdf(f.conteudo)
                 ELSE IF file_extension = "xml" THEN extrair_dados_xml(f.conteudo)
                 ELSE <<>>,
                 ts, falha)

RECURSIVE ProcessarArquivos(_, _, _, _, _)
ProcessarArquivos(est, uploaded_files, i, ts, falha) ==
    IF i > Len(uploaded_files) THEN est
    ELSE LET f == uploaded_files[i]
         IN  ProcessarArquivos(
                 IF f.lido /\ AfterLastDot(Lower(f.nome)) = "zip"
                 THEN processar_zip_upload(est, f.conteudo, f.nome, ts, falha)
                 ELSE Registrar(f.nome, est, ProcessarArquivo(est, f, ts, falha)),
                 uploaded_files, i + 1, ts, falha)

\* the handler's state at its start, from the two tables
Estado(notas, itens, historico) ==
    [notas |-> notas, itens |-> itens, processados |-> 0, erros |-> 0,
     detalhes |-> <<>>, st |-> <<>>, ok |-> FALSE, ret |-> "",
     persistidas |-> historico, salvamentos |-> <<>>, eventos |-> <<>>,
     csv |-> FALSE, buscas |-> 0, abortado |-> FALSE]

processar_arquivos_upload(notas, itens, historico, uploaded_files, ts, falha) ==
    ProcessarArquivos(Estado(notas, itens, historico), uploaded_files, 1, ts, falha)

(***************************************************************************)
(* processar_emails.buscar_e_processar_emails.  A message is               *)
(* [assunto, anexos]: assunto is <<text>>, or <<>> when the message has no *)
(* Subject header; an attachment is [nome, vazio, tamanho, conteudo].      *)
(***************************************************************************)
PALAVRAS_CHAVE == {"danfe", "nf-e", "nfc-e", "nf", "nfe", "xml", "nota fiscal"}

\* SecurityConfig.MAX_PDF_SIZE = 50 * 1024 * 1024
MAX_PDF_SIZE == 52428800

\* max_requests of the call rate_limiter.is_allowed("email_processing", ...)
MaxRequests == 10

\* "if nota and ValidadorNF.validar_nota_fiscal(nota): salvar_nota_fiscal"
ValidarESalvar(est, nota, ts, falha) ==
    IF nota = <<>> THEN est
    ELSE LET salvar(v) == IF v.ok THEN ChamarSalvar(est, v.nota, TRUE, ts, falha)
                          ELSE est
         IN  salvar(validar_nota_fiscal(nota[1]))

\* the body of "for part in msg.walk()" for a part with a disposition
ProcessarAnexo(est, part, ts, falha) ==
    LET filename_safe == sanitize_string(part.nome)
        filename_lower == Lower(filename_safe)
        max_size == IF EndsWith(filename_lower, ".xml") THEN MAX_XML_SIZE
                    ELSE MAX_PDF_SIZE
    IN  IF part.nome = "" THEN est
        ELSE IF ~(EndsWith(filename_lower, ".xml") \/ EndsWith(filename_lower, ".pdf"))
        THEN est
        ELSE IF part.vazio THEN est
        ELSE IF part.tamanho > max_size THEN est
        ELSE IF EndsWith(filename_lower, ".xml")
        THEN ValidarESalvar(est, extrair_dados_xml(part.conteudo), ts, falha)
        ELSE ValidarESalvar(est, extrair_dados_pdf(part.conteudo), ts, falha)

RECURSIVE ProcessarAnexos(_, _, _, _, _)
ProcessarAnexos(est, anexos, i, ts, falha) ==
    IF i > Len(anexos) THEN est
    ELSE ProcessarAnexos(ProcessarAnexo(est, anexos[i], ts, falha),
                         anexos, i + 1, ts, falha)

\* the body of "for email_id in email_ids"; decode_header(None) raises
\* TypeError, which only the handler of the whole function catches
ProcessarEmail(est0, msg, ts, falha) ==
    LET est == Comecar(est0)
    IN  IF msg.assunto = <<>> THEN [est EXCEPT !.abortado = TRUE]
        ELSE LET subject == Strip(msg.assunto[1])
                 subject_lower == Lower(subject)
             IN  IF ~\E palavra \in PALAVRAS_CHAVE : Contains(subject_lower, palavra)
                 THEN est
                 ELSE ProcessarAnexos(est, msg.anexos, 1, ts, falha)

NomeDoEmail(msg) == IF msg.assunto = <<>> THEN "(sem assunto)" ELSE msg.assunto[1]

RECURSIVE ProcessarEmails(_, _, _, _, _)
ProcessarEmails(est, emails, i, ts, falha) ==
    IF i > Len(emails) \/ est.abortado THEN est
    ELSE ProcessarEmails(
             Registrar(NomeDoEmail(emails[i]), est,
                       ProcessarEmail(est, emails[i], ts, falha)),
             emails, i + 1, ts, falha)

\* buscar_e_processar_emails once the rate limiter has let the call through
buscar_e_processar_emails(notas, itens, historico, emails, ts, falha) ==
    ProcessarEmails(Estado(notas, itens, historico), emails, 1, ts, falha)

(***************************************************************************)
(* The parts of the state a specification does not use stay at rest.       *)
(***************************************************************************)
PipeParado ==
    /\ notas_fiscais = <<>>
    /\ itens_nota_fiscal = <<>>
    /\ persistidas = <<>>
    /\ resultados = [processados |-> 0, erros |-> 0, detalhes |-> <<>>]
    /\ st_msgs = <<>>
    /\ eventos = <<>>
    /\ salvamentos = <<>>
    /\ chamada = "nenhuma"
    /\ entrada = <<>>
    /\ docs_usados = 0
    /\ relogio = 0
    /\ requisicoes = 0

CnpjParado ==
    /\ cnpj_arg = ""
    /\ cnpj_orig = ""
    /\ cnpj_res = "pendente"
    /\ cnpj_fase = "parado"

ValParado ==
    /\ val_nota = <<>>
    /\ val_res = "pendente"

RaceParado ==
    /\ pc = <<>>
    /\ achou = <<>>
    /\ pedido = <<>>

ExtParado ==
    /\ ext_doc = <<>>
    /\ ext_nota = <<>>
    /\ ext_passos = <<>>
    /\ ext_val = "pendente"
    /\ ext_fase = "parado"

FnParado ==
    /\ fn_nome = "nenhuma"
    /\ fn_arg = <<>>
    /\ fn_res = <<>>

RlParado ==
    /\ rl_requests = <<>>
    /\ rl_agora = 0
    /\ rl_hist = <<>>
    /\ rl_cfg = <<>>

(***************************************************************************)
(* The documents handed to the handlers.                                   *)
(***************************************************************************)
\* most documents one behaviour hands to the handlers
MaxDocs == 3

Chave44A == "3524" \o Repeat("1234567890", 4)
Chave44B == "3524" \o Repeat("0987654321", 4)
Chave44X == "3524" \o Repeat("1122334455", 4)
ChaveEspacada == "3524 0112 2233 3000 1815 5001 0000 0045 6100 0004 5671"

Arquivo(nome, lido, conteudo) == [nome |-> nome, lido |-> lido, conteudo |-> conteudo]

ColunasCabecalho == <<"numero", "serie", "cnpj_emitente", "nome_emitente",
                      "data_emissao", "valor_total", "chave_acesso",
                      "natureza_operacao">>

LinhaCabecalho(numero, cnpj, chave) ==
    [numero |-> numero, serie |-> "1", cnpj_emitente |-> cnpj,
     nome_emitente |-> "ACME", data_emissao |-> "2024-01-01",
     valor_total |-> "1500.00", chave_acesso |-> chave,
     natureza_operacao |-> "VENDA"]

\* header file of invoice 123 of issuer 11.222.333/0001-81
CabecalhoA ==
    [legivel |-> TRUE, colunas |-> ColunasCabecalho,
     linhas |-> <<LinhaCabecalho("123", "11.222.333/0001-81", Chave44A)>>]

\* the same with the tax-id 00.000.000/0000-00
CabecalhoB ==
    [legivel |-> TRUE, colunas |-> ColunasCabecalho,
     linhas |-> <<LinhaCabecalho("124", "00.000.000/0000-00", Chave44B)>>]

ColunasItens == <<"Número NF", "Código Produto", "Descrição", "Quantidade",
                  "Valor Unitário">>

LinhaItem(numero, codigo) ==
    [c \in SeqToSet(ColunasItens) |->
        CASE c = "Número NF" -> numero
          [] c = "Código Produto" -> codigo
          [] c = "Descrição" -> "Parafuso"
          [] c = "Quantidade" -> "2"
          [] c = "Valor Unitário" -> "10,50"]

\* items file with a row of invoice 123 and a row of the unknown invoice 999
ItensCsv ==
    [legivel |-> TRUE, colunas |-> ColunasItens,
     linhas |-> <<LinhaItem("123", "P1"), LinhaItem("999", "P2")>>]

\* flat file with one invoice and no access key
NotasCsv ==
    [legivel |-> TRUE,
     colunas |-> <<"numero", "cnpj_emitente", "nome_emitente", "data_emissao",
                   "valor_total">>,
     linhas |-> <<[numero |-> "321", cnpj_emitente |-> "11.222.333/0001-81",
                   nome_emitente |-> "ACME", data_emissao |-> "01/01/2024",
                   valor_total |-> "200.00"]>>]

\* a DANFE whose access key is printed in groups of four digits
OutroPdf ==
    [legivel |-> TRUE, natureza |-> FALSE,
     c |-> [cnpj |-> <<"11.222.333/0001-81">>, numero |-> <<"456">>,
            data |-> <<"01/01/2024">>, serie |-> <<"1">>,
            emitente |-> <<"ACME LTDA">>, valor |-> <<"1500,00">>,
            chave |-> <<ChaveEspacada>>]]

NfXmlDe(cnpj) ==
    [tamanho |-> 2048, utf8 |-> TRUE, bem_formado |-> TRUE, raiz |-> "nfeProc",
     inf |-> <<[Id |-> "NFe" \o Chave44X,
                ide |-> <<[nNF |-> "789", serie |-> "1",
                           dhEmi |-> "2024-01-01T10:00:00-03:00",
                           natOp |-> "VENDA"]>>,
                emit |-> <<[CNPJ |-> cnpj, xNome |-> "ACME"]>>,
                dest |-> <<>>,
                total |-> << <<[vNF |-> "100.00", vICMS |-> "18.00"]>> >>,
                det |-> << <<[cProd |-> "P1", xProd |-> "Parafuso", NCM |-> "7318",
                              qCom |-> "2.00", vUnCom |-> "50.00",
                              vProd |-> "100.00"]>> >>]>>]

NfXml == NfXmlDe("11222333000181")
NfXmlCnpjInvalido == NfXmlDe("11222333000182")
RuimXml == [NfXml EXCEPT !.bem_formado = FALSE]

\* the files of an upload list
ArquivosUpload ==
    <<Arquivo("header.csv", TRUE, CabecalhoA),
      Arquivo("Cabecalho_B.csv", TRUE, CabecalhoB),
      Arquivo("items.csv", TRUE, ItensCsv),
      Arquivo("nf.xml", TRUE, NfXml),
      Arquivo("ruim.xml", TRUE, RuimXml),
      Arquivo("other.pdf", FALSE, OutroPdf),
      Arquivo("corrompido.zip", TRUE, [valido |-> FALSE, entradas |-> <<>>])>>

\* the entries of a bundle
EntradasZip ==
    <<Arquivo("items.csv", TRUE, ItensCsv),
      Arquivo("other.pdf", TRUE, OutroPdf),
      Arquivo("header.csv", TRUE, CabecalhoA),
      Arquivo("itens_header.csv", TRUE, CabecalhoB),
      Arquivo("notas.csv", TRUE, NotasCsv),
      Arquivo("leia.txt", TRUE, [legivel |-> FALSE]),
      Arquivo("pasta/", TRUE, [legivel |-> FALSE])>>

Anexo(nome, tamanho, conteudo) ==
    [nome |-> nome, vazio |-> FALSE, tamanho |-> tamanho, conteudo |-> conteudo]

\* the unread messages of the mailbox
Emails ==
    <<[assunto |-> <<"NF-e 789">>, anexos |-> <<Anexo("nf.xml", 2048, NfXml)>>],
      [assunto |-> <<>>, anexos |-> <<Anexo("nf.xml", 2048, NfXml)>>],
      [assunto |-> <<"Bom dia">>, anexos |-> <<Anexo("nf.xml", 2048, NfXml)>>],
      [assunto |-> <<"Nota Fiscal 456">>, anexos |-> <<Anexo("other.pdf", 4096, OutroPdf)>>],
      [assunto |-> <<"DANFE">>, anexos |-> <<Anexo("invalida.xml", 2048, NfXmlCnpjInvalido),
                                             Anexo("foto.png", 100, [legivel |-> FALSE])>>]>>

\* the ways of picking n different documents out of k
Escolhas(n, k) ==
    {idx \in [1..n -> 1..k] : \A i \in 1..n, j \in 1..n : i # j => idx[i] # idx[j]}

\* database failures a call can meet
Falhas == {"nenhuma", "insercao", "contagem"}

(***************************************************************************)
(* The import pipeline: the handlers act on the store one call at a time.  *)
(***************************************************************************)
Init ==
    /\ PipeParado /\ CnpjParado /\ ValParado /\ RaceParado /\ ExtParado /\ FnParado /\ RlParado

\* the handler returns: the tables and the record of the call.  The saves
\* of one call read the same second of the clock; the next call reads a
\* later one.
Concluir(est, tipo, nomes, custo) ==
    /\ notas_fiscais' = est.notas
    /\ itens_nota_fiscal' = est.itens
    /\ persistidas' = est.persistidas
    /\ resultados' = [processados |-> est.processados, erros |-> est.erros,
                      detalhes |-> est.detalhes]
    /\ st_msgs' = est.st
    /\ eventos' = est.eventos
    /\ salvamentos' = est.salvamentos
    /\ chamada' = tipo
    /\ entrada' = nomes
    /\ docs_usados' = docs_usados + custo
    /\ relogio' = relogio + 1

\* processar_arquivos_upload on a list of files taken from `arquivos`
UploadDe(arquivos) ==
    \E n \in 1..(MaxDocs - docs_usados) :
      \E idx \in Escolhas(n, Len(arquivos)), falha \in Falhas :
        LET uploaded_files == [i \in 1..n |-> arquivos[idx[i]]]
        IN  /\ Concluir(processar_arquivos_upload(notas_fiscais, itens_nota_fiscal,
                            persistidas, uploaded_files, TimeStr(relogio), falha),
                        "upload", [i \in 1..n |-> uploaded_files[i].nome], n)
            /\ UNCHANGED <<requisicoes, vars_cnpj, vars_val, vars_race, vars_ext, vars_fn, vars_rl>>

\* processar_arquivos_upload on a list of files that are not bundles
Upload == UploadDe(ArquivosUpload)

\* processar_arquivos_upload on one bundle
UploadZip ==
    /\ docs_usados < MaxDocs
    /\ \E n \in 0..(MaxDocs - docs_usados) :
         \E idx \in Escolhas(n, Len(EntradasZip)), falha \in Falhas :
           LET entradas == [i \in 1..n |-> EntradasZip[idx[i]]]
               zip == Arquivo("lote.zip", TRUE, [valido |-> TRUE, entradas |-> entradas])
           IN  /\ Concluir(processar_arquivos_upload(notas_fiscais, itens_nota_fiscal,
                               persistidas, <<zip>>, TimeStr(relogio), falha),
                           "zip", [i \in 1..n |-> entradas[i].nome],
                           IF n = 0 THEN 1 ELSE n)
               /\ UNCHANGED <<requisicoes, vars_cnpj, vars_val, vars_race, vars_ext, vars_fn, vars_rl>>

\* buscar_e_processar_emails on the unread messages
BuscarEProcessarEmails ==
    /\ docs_usados < MaxDocs
    /\ \E n \in 0..(MaxDocs - docs_usados) :
         \E idx \in Escolhas(n, Len(Emails)), falha \in Falhas :
           LET emails == [i \in 1..n |-> Emails[idx[i]]]
           IN  IF requisicoes >= MaxRequests
               THEN UNCHANGED vars
               ELSE /\ requisicoes' = requisicoes + 1
                    /\ Concluir(buscar_e_processar_emails(notas_fiscais,
                                    itens_nota_fiscal, persistidas, emails,
                                    TimeStr(relogio), falha),
                                "email", [i \in 1..n |-> NomeDoEmail(emails[i])],
                                IF n = 0 THEN 1 ELSE n)
                    /\ UNCHANGED <<vars_cnpj, vars_val, vars_race, vars_ext, vars_fn, vars_rl>>

Next == Upload \/ UploadZip \/ BuscarEProcessarEmails

Spec == Init /\ [][Next]_vars

(***************************************************************************)
(* Properties of the import pipeline                                       *)
(***************************************************************************)
ContemPalavra(nome, palavras) == \E palavra \in palavras : Contains(Lower(nome), palavra)

\* 1 for a header name, 3 for an items name without header keyword, else 2
Prioridade(nome) ==
    IF ContemPalavra(nome, {"header", "cabecalho"}) THEN 1
    ELSE IF ContemPalavra(nome, {"items", "itens"}) THEN 3
    ELSE 2

EhCsv(nome) == EndsWith(Lower(nome), ".csv")

NomesDosEventos == [i \in 1..Len(eventos) |-> eventos[i].nome]

\* the entries of the last bundle that are not directories
ArquivosDaEntrada == SelectSeq(entrada, LAMBDA nome : ~EndsWith(nome, "/"))

\* the zero-invoice precondition turned the document down
Bloqueado(e) ==
    \E i \in 1..Len(e.st) : \/ Contains(e.st[i], "BLOQUEADO")
                            \/ Contains(e.st[i], "Nenhuma nota fiscal encontrada")

\* C1: processar_zip_upload handles every entry of the bundle that is not
\* a directory exactly once, the entries whose name holds 'header' or
\* 'cabecalho' (in any letter case) before the entries that hold neither
\* keyword, and those before the entries whose name holds 'items' or
\* 'itens' and no header keyword, whatever the order of the archive.
C1_OrdemDoLote ==
    chamada = "zip" =>
        /\ Len(eventos) = Len(ArquivosDaEntrada)
        /\ SeqToSet(NomesDosEventos) = SeqToSet(ArquivosDaEntrada)
        /\ \A i \in 1..Len(eventos), j \in 1..Len(eventos) :
              i < j => Prioridade(eventos[i].nome) <= Prioridade(eventos[j].nome)

\* the bundle [items.csv, other.pdf, header.csv] was handled as
\* [header.csv, other.pdf, items.csv]
C1_Witness ==
    /\ chamada = "zip"
    /\ entrada = <<"items.csv", "other.pdf", "header.csv">>
    /\ NomesDosEventos = <<"header.csv", "other.pdf", "items.csv">>

\* C2: when notas_fiscais is empty, processar_csv_upload of an items file
\* (name with 'items' or 'itens' and no header keyword) saves no item,
\* looks up no row and shows an error message.
C2_ItensSemNotas ==
    \A i \in 1..Len(eventos) :
        LET e == eventos[i]
        IN  (e.csv /\ Prioridade(e.nome) = 3 /\ e.notas_antes = 0) =>
                /\ e.itens_salvos = 0
                /\ e.buscas = 0
                /\ \E k \in 1..Len(e.st) : SubSeq(e.st[k], 1, 6) = "error:"

\* an items file with rows met the empty store and was turned down
C2_Witness ==
    /\ notas_fiscais = <<>>
    /\ itens_nota_fiscal = <<>>
    /\ \E i \in 1..Len(eventos) :
          /\ eventos[i].nome = "items.csv"
          /\ eventos[i].csv
          /\ Bloqueado(eventos[i])

\* C3 (as stated): every invoice in the store is one for which
\* ValidadorNF.validar_nota_fiscal answers true.
C3_Original ==
    \A i \in 1..Len(persistidas) : validar_nota_fiscal(persistidas[i].nota).ok

\* C4: when a bundle meets an empty store and an invoice of one of its
\* header CSVs is stored, no items CSV of the bundle is turned down by the
\* zero-invoice precondition, whatever the order of the archive.
C4_ItensDepoisDoCabecalho ==
    (/\ chamada = "zip"
     /\ eventos # <<>>
     /\ eventos[1].notas_antes = 0
     /\ \E i \in 1..Len(eventos) : /\ EhCsv(eventos[i].nome)
                                   /\ Prioridade(eventos[i].nome) = 1
                                   /\ eventos[i].inseridas >= 1)
    => \A j \in 1..Len(eventos) :
          (EhCsv(eventos[j].nome) /\ Prioridade(eventos[j].nome) = 3)
              => ~Bloqueado(eventos[j])

\* the archive lists items.csv before header.csv, the store was empty, and
\* an item of items.csv was saved under the invoice of header.csv
C4_Witness ==
    /\ chamada = "zip"
    /\ \E a \in 1..Len(entrada), b \in 1..Len(entrada) :
          a < b /\ entrada[a] = "items.csv" /\ entrada[b] = "header.csv"
    /\ eventos[1].notas_antes = 0
    /\ \E i \in 1..Len(eventos), j \in 1..Len(eventos) :
          /\ eventos[i].nome = "header.csv" /\ eventos[i].inseridas = 1
          /\ eventos[j].nome = "items.csv" /\ eventos[j].itens_salvos = 1
          /\ ~Bloqueado(eventos[j])

\* C7: no two rows of notas_fiscais share chave_acesso, and a call of
\* salvar_nota_fiscal whose chave_acesso is already stored returns False
\* and inserts neither an invoice nor an item.
C7_ChaveUnica ==
    /\ \A i \in 1..Len(notas_fiscais), j \in 1..Len(notas_fiscais) :
          i # j => notas_fiscais[i].chave_acesso # notas_fiscais[j].chave_acesso
    /\ \A k \in 1..Len(salvamentos) :
          salvamentos[k].existia =>
              /\ salvamentos[k].ret = "False"
              /\ salvamentos[k].notas_ins = 0
              /\ salvamentos[k].itens_ins = 0

\* a save met its own chave_acesso in the store
C7_Witness ==
    /\ notas_fiscais # <<>>
    /\ \E k \in 1..Len(salvamentos) :
          /\ salvamentos[k].existia
          /\ \E i \in 1..Len(notas_fiscais) :
                notas_fiscais[i].chave_acesso = salvamentos[k].chave

\* C9 (as stated): a document whose chave_acesso is already stored adds
\* nothing to 'erros' and no failure line to 'detalhes'.
C9_Original ==
    \A i \in 1..Len(eventos) :
        eventos[i].duplicadas > 0 =>
            /\ eventos[i].erros = 0
            /\ \A k \in 1..Len(eventos[i].detalhes) :
                  SubSeq(eventos[i].detalhes[k], 1, 3) # "[x]"

\* C10 (as stated): every document handed to a handler is attempted,
\* whatever happened to the documents before it.
C10_Original ==
    /\ chamada \in {"upload", "email"} => Len(eventos) = Len(entrada)
    /\ chamada = "zip" => Len(eventos) = Len(ArquivosDaEntrada)

(***************************************************************************)
(* Uploads of single-purpose files: header files with few columns, an      *)
(* items file whose rows name known and unknown invoices, an XML without   *)
(* infNFe.  The handler is the one of Spec; only the files differ.         *)
(***************************************************************************)
\* numero;cnpj_emitente;nome_emitente;valor_total / 123;11.222.333/0001-81;ACME;1500.00
CabecalhoMinimo ==
    [legivel |-> TRUE,
     colunas |-> <<"numero", "cnpj_emitente", "nome_emitente", "valor_total">>,
     linhas |-> <<[numero |-> "123", cnpj_emitente |-> "11.222.333/0001-81",
                   nome_emitente |-> "ACME", valor_total |-> "1500.0"]>>]

\* header file without the columns of the issuer
CabecalhoSemEmitente ==
    [legivel |-> TRUE,
     colunas |-> <<"numero", "valor_total", "Emitente">>,
     linhas |-> <<[numero |-> "201", valor_total |-> "10.0", Emitente |-> "ACME"],
                  [numero |-> "202", valor_total |-> "20.0", Emitente |-> "ACME"]>>]

\* header file without a column for the number
CabecalhoSemNumero ==
    [legivel |-> TRUE,
     colunas |-> <<"nota", "cnpj_emitente", "nome_emitente">>,
     linhas |-> <<[nota |-> "301", cnpj_emitente |-> "11.222.333/0001-81",
                   nome_emitente |-> "ACME"]>>]

\* items file: rows of the unknown invoices 999 and 888 around rows of 123
ItensOrdem ==
    [legivel |-> TRUE, colunas |-> ColunasItens,
     linhas |-> <<LinhaItem("999", "P1"), LinhaItem("123", "P2"),
                  LinhaItem("888", "P3"), LinhaItem("123", "P4")>>]

\* an NF-e document whose root has no infNFe element
SemInfXml == [NfXml EXCEPT !.inf = <<>>]

\* an NF-e document whose only det has a prod with qCom and vUnCom but no
\* vProd
XmlSemVProd ==
    [NfXml EXCEPT !.inf = <<[@[1] EXCEPT !.det =
        << <<[cProd |-> "X1", xProd |-> "Parafuso", NCM |-> "7318",
              qCom |-> "2.00", vUnCom |-> "50.00"]>> >>]>>]

ArquivosCenario ==
    <<Arquivo("cabecalho_min.csv", TRUE, CabecalhoMinimo),
      Arquivo("cabecalho_sem_emitente.csv", TRUE, CabecalhoSemEmitente),
      Arquivo("header_sem_numero.csv", TRUE, CabecalhoSemNumero),
      Arquivo("itens_ordem.csv", TRUE, ItensOrdem),
      Arquivo("sem_inf.xml", TRUE, SemInfXml),
      Arquivo("sem_vprod.xml", TRUE, XmlSemVProd)>>

UploadCenario == UploadDe(ArquivosCenario)

NextCenarios == UploadCenario

SpecCenarios == Init /\ [][NextCenarios]_vars

\* the database refused no save of the last call: a save that returned
\* False met a stored access key
SemFalhaDoBanco ==
    \A i \in 1..Len(salvamentos) : salvamentos[i].ret = "True" \/ salvamentos[i].existia

\* C11: uploading, to an empty store, the header file with only the columns
\* numero, cnpj_emitente, nome_emitente and valor_total and the row
\* 123;11.222.333/0001-81;ACME;1500.00 persists exactly one invoice, whose
\* total value is 1500.00 (the database accepting the insert).
C11_CabecalhoMinimo ==
    (/\ chamada = "upload"
     /\ entrada = <<"cabecalho_min.csv">>
     /\ eventos[1].notas_antes = 0
     /\ SemFalhaDoBanco)
    => /\ eventos[1].inseridas = 1
       /\ Len(notas_fiscais) = 1
       /\ notas_fiscais[1].numero = "123"
       /\ notas_fiscais[1].cnpj_emitente = "11.222.333/0001-81"
       /\ notas_fiscais[1].valor_total = Dec(1, 1500, 0)
       /\ resultados.processados = 1
       /\ resultados.erros = 0

\* the minimal header file was uploaded to an empty store and its invoice stored
C11_Witness ==
    /\ chamada = "upload"
    /\ entrada = <<"cabecalho_min.csv">>
    /\ eventos[1].notas_antes = 0
    /\ SemFalhaDoBanco
    /\ Len(notas_fiscais) = 1
    /\ notas_fiscais[1].valor_total = Dec(1, 1500, 0)

\* C16: an uploaded XML whose root is a recognised NF-e root but which
\* holds no infNFe element yields no record: the file is reported as
\* "Erro no processamento", counted as one error, and neither an invoice
\* nor an item is stored for it.
C16_SemInfNFe ==
    chamada = "upload" =>
        \A i \in 1..Len(eventos) :
            eventos[i].nome = "sem_inf.xml"
                => /\ eventos[i].inseridas = 0
                   /\ eventos[i].itens_salvos = 0
                   /\ eventos[i].erros = 1
                   /\ eventos[i].detalhes = <<"[x] sem_inf.xml: Erro no processamento">>

\* the XML without infNFe was uploaded after a header file whose invoice
\* was stored, and left the store as that file had left it
C16_Witness ==
    /\ chamada = "upload"
    /\ entrada = <<"cabecalho_min.csv", "sem_inf.xml">>
    /\ eventos[1].inseridas = 1
    /\ eventos[2].notas_antes = Len(notas_fiscais)
    /\ eventos[2].inseridas = 0
    /\ eventos[2].erros = 1

\* C18 (as stated): for every line item, from a det element of an XML or
\* from a row of an items CSV, whose parsed line total is zero or unset
\* while its quantity and unit value are positive, the stored line total
\* is quantity times unit value; so no stored item with a positive
\* quantity and a positive unit value has a line total of zero.
C18_Original ==
    \A i \in 1..Len(itens_nota_fiscal) :
        (DecPos(itens_nota_fiscal[i].quantidade) /\ DecPos(itens_nota_fiscal[i].valor_unitario))
            => itens_nota_fiscal[i].valor_total =
                   IF DecIsZero(itens_nota_fiscal[i].valor_total)
                   THEN DecMul(itens_nota_fiscal[i].quantidade,
                               itens_nota_fiscal[i].valor_unitario)
                   ELSE itens_nota_fiscal[i].valor_total

\* an invoice numbered 123 was in the store when the document of event i
\* was handled
Tinha123(i) ==
    \E j \in 1..eventos[i].notas_antes : notas_fiscais[j].numero = "123"

\* C19: in the items role a row whose document number matches no stored
\* invoice stores no item and fails only that row: the rows after it are
\* still looked up and stored, and every stored item carries the id of a
\* stored invoice that bears the row's document number.  The items file
\* has the rows 999/P1, 123/P2, 888/P3, 123/P4; no invoice 999 or 888 is
\* ever stored.
C19_LinhaSemNota ==
    /\ \A k \in 1..Len(itens_nota_fiscal) :
          /\ itens_nota_fiscal[k].codigo \notin {"P1", "P3"}
          /\ itens_nota_fiscal[k].codigo \in {"P2", "P4"}
                => \E j \in 1..Len(notas_fiscais) :
                      /\ notas_fiscais[j].id = itens_nota_fiscal[k].nota_fiscal_id
                      /\ notas_fiscais[j].numero = "123"
    /\ chamada = "upload" =>
          \A i \in 1..Len(eventos) :
              (eventos[i].nome = "itens_ordem.csv" /\ eventos[i].buscas > 0)
                  => /\ eventos[i].buscas = 4
                     /\ eventos[i].itens_salvos = IF Tinha123(i) THEN 2 ELSE 0

\* the items file was uploaded after the header of invoice 123: the rows
\* of 999 and 888 failed, the rows of 123 after each of them were stored
C19_Witness ==
    /\ chamada = "upload"
    /\ entrada = <<"cabecalho_min.csv", "itens_ordem.csv">>
    /\ eventos[2].buscas = 4
    /\ eventos[2].itens_salvos = 2
    /\ Len(itens_nota_fiscal) = 2
    /\ itens_nota_fiscal[1].codigo = "P2"
    /\ itens_nota_fiscal[2].codigo = "P4"
    /\ itens_nota_fiscal[2].nota_fiscal_id = notas_fiscais[1].id

\* what the header role reports for a file whose essential fields
\* `faltantes` have no column
AvisoFaltantes(nome, faltantes) ==
    <<"info: Processando arquivo de CABEÇALHO: " \o nome,
      "warning: Campos essenciais não encontrados: " \o faltantes>>

\* C20: in the header role, a file in which numero, cnpj_emitente or
\* nome_emitente has no column is aborted as a whole: no invoice is built
\* or stored from any of its rows, and the warning lists exactly the
\* fields that are missing.  One file lacks the two issuer columns (rows
\* 201 and 202), the other lacks the number column (row 301).
C20_CabecalhoAbortado ==
    /\ \A j \in 1..Len(notas_fiscais) :
          notas_fiscais[j].numero \notin {"201", "202", "301", ""}
    /\ chamada = "upload" =>
          \A i \in 1..Len(eventos) :
              /\ eventos[i].nome \in {"cabecalho_sem_emitente.csv", "header_sem_numero.csv"}
                    => /\ eventos[i].inseridas = 0
                       /\ eventos[i].itens_salvos = 0
                       /\ eventos[i].erros = 1
              /\ eventos[i].nome = "cabecalho_sem_emitente.csv"
                    => eventos[i].st = AvisoFaltantes("cabecalho_sem_emitente.csv",
                                                      "cnpj_emitente, nome_emitente")
              /\ eventos[i].nome = "header_sem_numero.csv"
                    => eventos[i].st = AvisoFaltantes("header_sem_numero.csv", "numero")

\* both incomplete header files were uploaded after the complete one and
\* stored nothing
C20_Witness ==
    /\ chamada = "upload"
    /\ entrada = <<"cabecalho_min.csv", "cabecalho_sem_emitente.csv",
                   "header_sem_numero.csv">>
    /\ eventos[1].inseridas = 1
    /\ eventos[2].inseridas = 0
    /\ eventos[3].inseridas = 0
    /\ Len(notas_fiscais) = 1

\* C22: in processar_zip_upload an entry whose extension is not pdf, xml
\* or csv adds the one message "Tipo de arquivo não suportado" and changes
\* neither the processed nor the failed counter; no save is called and
\* nothing is stored for it.
C22_NaoSuportado ==
    chamada = "zip" =>
        \A i \in 1..Len(eventos) :
            eventos[i].nome = "leia.txt"
                => /\ eventos[i].detalhes = <<"[!] leia.txt: Tipo de arquivo não suportado">>
                   /\ eventos[i].processados = 0
                   /\ eventos[i].erros = 0
                   /\ eventos[i].inseridas = 0
                   /\ eventos[i].itens_salvos = 0
                   /\ eventos[i].st = <<>>

\* a bundle held leia.txt next to a document that was stored
C22_Witness ==
    /\ chamada = "zip"
    /\ \E i \in 1..Len(eventos) : eventos[i].nome = "leia.txt"
    /\ Len(eventos) = 2
    /\ resultados.processados = 1
    /\ resultados.erros = 0

\* C30: in a bundle an items file adds to 'processados', or gets a line of
\* success in 'detalhes', only if notas_fiscais held an invoice when it
\* was handled and the zero-invoice precondition did not turn it down.
C30_Original ==
    chamada = "zip" =>
        \A i \in 1..Len(eventos) :
            (/\ eventos[i].csv
             /\ Prioridade(eventos[i].nome) = 3
             /\ \/ eventos[i].processados > 0
                \/ \E k \in 1..Len(eventos[i].detalhes) :
                      SubSeq(eventos[i].detalhes[k], 1, 3) = "[v]")
                => /\ eventos[i].notas_antes > 0
                   /\ ~Bloqueado(eventos[i])

\* the rows of notas_fiscais that the documents of the last call inserted
LinhasDaChamada ==
    {k \in 1..Len(notas_fiscais) :
        \E i \in 1..Len(eventos) :
            /\ k > eventos[i].notas_antes
            /\ k <= eventos[i].notas_antes + eventos[i].inseridas}

\* C24: every invoice stored by a run of buscar_e_processar_emails has
\* origem "email", and every invoice stored by an upload has origem
\* "upload".
C24_Original ==
    \A k \in LinhasDaChamada :
        notas_fiscais[k].origem = IF chamada = "email" THEN "email" ELSE "upload"

(***************************************************************************)
(* Tax-id checksum as a pure function: the inputs are valid tax-ids and    *)
(* their single-digit mutations.                                           *)
(***************************************************************************)
\* s with its i-th character replaced by c
SetCh(s, i, c) == SubSeq(s, 1, i - 1) \o c \o SubSeq(s, i + 1, Len(s))

PesosDigito1 == <<5, 4, 3, 2, 9, 8, 7, 6, 5, 4, 3, 2>>
PesosDigito2 == <<6, 5, 4, 3, 2, 9, 8, 7, 6, 5, 4, 3, 2>>

RECURSIVE SomaRef(_, _, _)
SomaRef(d, pesos, n) ==
    IF n = 0 THEN 0 ELSE SomaRef(d, pesos, n - 1) + DigitVal(Ch(d, n)) * pesos[n]

\* the weighted modulo-11 definition of a valid 14-digit tax-id
CnpjValidoRef(d) ==
    /\ Len(d) = 14
    /\ \E i \in 2..14 : Ch(d, i) # Ch(d, 1)
    /\ DigitVal(Ch(d, 13)) = (LET r == SomaRef(d, PesosDigito1, 12) % 11
                              IN IF r < 2 THEN 0 ELSE 11 - r)
    /\ DigitVal(Ch(d, 14)) = (LET r == SomaRef(d, PesosDigito2, 13) % 11
                              IN IF r < 2 THEN 0 ELSE 11 - r)

BoolStr(b) == IF b THEN "True" ELSE "False"

\* valid tax-ids around 11.222.333/0001-81: the first digit and the last
\* digit of the branch number vary, bare or punctuated
InitCnpj ==
    \E a \in Digits, b \in Digits, d1 \in Digits, d2 \in Digits, pontuado \in BOOLEAN :
        LET d == a \o "1222333000" \o b \o d1 \o d2
        IN  /\ CnpjValidoRef(d)
            /\ cnpj_orig = d
            /\ cnpj_arg = (IF pontuado THEN FormatarCnpj(d) ELSE d)
            /\ cnpj_res = "pendente"
            /\ cnpj_fase = "original"
            /\ PipeParado /\ ValParado /\ RaceParado /\ ExtParado /\ FnParado /\ RlParado

\* one call of ValidadorNF._validar_cnpj on the current argument
ValidarCnpj ==
    /\ cnpj_res = "pendente"
    /\ cnpj_res' = BoolStr(validar_cnpj(cnpj_arg))
    /\ UNCHANGED <<cnpj_arg, cnpj_orig, cnpj_fase>>
    /\ UNCHANGED <<vars_pipe, vars_val, vars_race, vars_ext, vars_fn, vars_rl>>

\* the caller replaces exactly one digit of the validated tax-id
MutarDigito ==
    /\ cnpj_fase = "original"
    /\ cnpj_res # "pendente"
    /\ \E i \in 1..14, c \in Digits :
          /\ c # Ch(cnpj_orig, i)
          /\ cnpj_arg' = (LET m == SetCh(cnpj_orig, i, c)
                          IN IF Len(cnpj_arg) = 14 THEN m ELSE FormatarCnpj(m))
    /\ cnpj_res' = "pendente"
    /\ cnpj_fase' = "mutado"
    /\ UNCHANGED cnpj_orig
    /\ UNCHANGED <<vars_pipe, vars_val, vars_race, vars_ext, vars_fn, vars_rl>>

NextCnpj == ValidarCnpj \/ MutarDigito

SpecCnpj == InitCnpj /\ [][NextCnpj]_vars

\* position (1..14) at which the argument differs from the original
PosMutada == CHOOSE i \in 1..14 : Ch(OnlyDigits(cnpj_arg), i) # Ch(cnpj_orig, i)

\* C5 (as stated): _validar_cnpj answers true for every tax-id whose check
\* digits match the weighted modulo-11 algorithm, and false for every
\* tax-id obtained from such an id by changing exactly one digit.
C5_Original ==
    /\ (cnpj_fase = "original" /\ cnpj_res # "pendente") => cnpj_res = "True"
    /\ (cnpj_fase = "mutado" /\ cnpj_res # "pendente") => cnpj_res = "False"

\* C5 (amended): _validar_cnpj answers true for every valid tax-id, and
\* false for every single-digit mutation of it that changes a check digit
\* or that starts from an id whose two check digits are not both 0.
C5_Sensibilidade ==
    /\ (cnpj_fase = "original" /\ cnpj_res # "pendente") => cnpj_res = "True"
    /\ (/\ cnpj_fase = "mutado"
        /\ cnpj_res # "pendente"
        /\ \/ PosMutada >= 13
           \/ Ch(cnpj_orig, 13) # "0"
           \/ Ch(cnpj_orig, 14) # "0")
       => cnpj_res = "False"

\* a mutated base digit of an id with a non-zero check digit was rejected
C5_Witness ==
    /\ cnpj_fase = "mutado"
    /\ cnpj_res = "False"
    /\ PosMutada <= 12
    /\ Ch(cnpj_orig, 13) # "0"

(***************************************************************************)
(* ValidadorNF.validar_nota_fiscal as a pure function: the inputs are the  *)
(* records of a family around a valid invoice, and what the extractors     *)
(* make of the documents above.                                            *)
(***************************************************************************)
ItemValido(i) ==
    [codigo |-> "P1", descricao |-> "Parafuso", ncm |-> "7318",
     quantidade |-> Dec(1, 2, 0), valor_unitario |-> Dec(1, 50, 0),
     valor_total |-> Dec(1, 100, 0)]

NotasDaFamilia ==
    {NotaFiscal("123", "1", data, cnpj, "ACME", valor, chave, "VENDA",
                [i \in 1..n |-> ItemValido(i)]) :
        data \in {<<0>>, <<1>>, <<2>>, <<0 - 3650>>, <<0 - 3651>>},
        cnpj \in {"11.222.333/0001-81", "11222333000181", "11222333000182"},
        valor \in {VFloat(Dec(1, 1500, 0)), VStr("1500,00"), VFloat(DecZero),
                   VFloat(ValorMaximo), VFloat(Dec(1, 1000000000, 0)), VStr("abc")},
        chave \in {Chave44A, "NFe" \o Chave44A, ChaveEspacada, Repeat("0", 44),
                   SubSeq(Chave44A, 1, 43)},
        n \in {0, 1}}

\* invoices with exactly and with more than MAX_ITEMS_PER_NF items
NotasGrandes ==
    {NotaFiscal("123", "1", <<0>>, "11222333000181", "ACME",
                VFloat(Dec(1, 1500, 0)), Chave44A, "VENDA",
                [i \in 1..n |-> ItemValido(i)]) :
        n \in {MAX_ITEMS_PER_NF, MAX_ITEMS_PER_NF + 1}}

NotasExtraidas ==
    {extrair_dados_pdf(OutroPdf)[1], extrair_dados_xml(NfXml)[1],
     extrair_dados_xml(NfXmlCnpjInvalido)[1]}

InitValidador ==
    /\ val_nota \in {<<nota>> : nota \in NotasDaFamilia \cup NotasGrandes \cup NotasExtraidas}
    /\ val_res = "pendente"
    /\ PipeParado /\ CnpjParado /\ RaceParado /\ ExtParado /\ FnParado /\ RlParado

\* one call of ValidadorNF.validar_nota_fiscal; the record is left as
\* _validar_valores changed it
Validar ==
    /\ val_res = "pendente"
    /\ LET v == validar_nota_fiscal(val_nota[1])
       IN  /\ val_res' = BoolStr(v.ok)
           /\ val_nota' = <<v.nota>>
    /\ UNCHANGED <<vars_pipe, vars_cnpj, vars_race, vars_ext, vars_fn, vars_rl>>

NextValidador == Validar

SpecValidador == InitValidador /\ [][NextValidador]_vars

\* C6 (as stated): a record validar_nota_fiscal accepted has an access key
\* of exactly 44 digits that are not all zero, a total value above 0 and
\* not above 999,999,999.99, an issuer tax-id that passes the checksum, an
\* issue date from 3650 days ago to 1 day ahead, and at most 1000 items.
C6_Original ==
    val_res = "True" =>
        LET nota == val_nota[1]
        IN  /\ Len(nota.chave_acesso) = 44
            /\ OnlyDigits(nota.chave_acesso) = nota.chave_acesso
            /\ nota.chave_acesso # Repeat("0", 44)
            /\ nota.valor_total.tipo = "float"
            /\ DecPos(nota.valor_total.num)
            /\ ~DecGtAbs(nota.valor_total.num, Dec(1, 999999999, 99))
            /\ CnpjValidoRef(OnlyDigits(nota.cnpj_emitente))
            /\ nota.data_emissao # <<>>
            /\ nota.data_emissao[1] >= 0 - 3650
            /\ nota.data_emissao[1] <= 1
            /\ Len(nota.itens) <= 1000

(***************************************************************************)
(* Concurrent calls of DatabaseManager.salvar_nota_fiscal.  The duplicate  *)
(* check runs on one connection and the INSERTs in a later transaction on  *)
(* another; notas_fiscais has no unique constraint on chave_acesso.  Each  *)
(* request is a process that makes the two steps one after the other.      *)
(***************************************************************************)
\* number of concurrent requests
NumPedidos == 2

Pedidos == 1..NumPedidos

\* the record request p saves: its numero names the request
NotaDoPedido(p, chave, n) ==
    NotaFiscal("90" \o DigitChars[p + 1], "1", <<0>>, "11222333000181", "ACME",
               VFloat(Dec(1, 1500, 0)), chave, "VENDA",
               [i \in 1..n |-> ItemValido(i)])

InitRace ==
    /\ \E chaves \in [Pedidos -> {Chave44A, Chave44B}], ns \in [Pedidos -> {0, 1}] :
          pedido = [p \in Pedidos |-> NotaDoPedido(p, chaves[p], ns[p])]
    /\ pc = [p \in Pedidos |-> "verificar"]
    /\ achou = [p \in Pedidos |-> [existe |-> FALSE, linhas |-> 0]]
    /\ PipeParado /\ CnpjParado /\ ValParado /\ ExtParado /\ FnParado /\ RlParado

\* request p runs its duplicate check; linhas is the number of rows the
\* table had at that moment
Verificar(p) ==
    /\ pc[p] = "verificar"
    /\ LET existe == Duplicada(notas_fiscais, pedido[p], TimeStr(0))
       IN  /\ achou' = [achou EXCEPT ![p] = [existe |-> existe,
                                             linhas |-> Len(notas_fiscais)]]
           /\ pc' = [pc EXCEPT ![p] = IF existe THEN "fim" ELSE "inserir"]
    /\ UNCHANGED <<vars_pipe, vars_cnpj, vars_val, vars_ext, vars_fn, vars_rl, pedido>>

\* request p runs its transaction
Inserir(p) ==
    /\ pc[p] = "inserir"
    /\ LET r == InserirNota(notas_fiscais, itens_nota_fiscal, pedido[p],
                            TimeStr(0), "nenhuma")
       IN  /\ notas_fiscais' = r.notas
           /\ itens_nota_fiscal' = r.itens
           /\ persistidas' = Append(persistidas,
                                    [nota |-> pedido[p], validada |-> FALSE])
    /\ pc' = [pc EXCEPT ![p] = "fim"]
    /\ UNCHANGED <<resultados, st_msgs, eventos, salvamentos, chamada, entrada,
                   docs_usados, relogio, requisicoes, vars_cnpj, vars_val,
                   vars_ext, vars_fn, vars_rl, achou, pedido>>

NextRace == \E p \in Pedidos : Verificar(p) \/ Inserir(p)

SpecRace == InitRace /\ [][NextRace]_vars

\* the request that inserted row i
PedidoDaLinha(i) == CHOOSE p \in Pedidos : pedido[p].numero = notas_fiscais[i].numero

\* C8 (as stated): with the checks and inserts of concurrent requests
\* interleaved in any order, no two rows of notas_fiscais share
\* chave_acesso.
C8_Original ==
    \A i \in 1..Len(notas_fiscais), j \in 1..Len(notas_fiscais) :
        i # j => notas_fiscais[i].chave_acesso # notas_fiscais[j].chave_acesso

\* C8 (amended): two rows of notas_fiscais share chave_acesso only when
\* the duplicate checks of both requests ran before the first of the two
\* rows was inserted; a request whose check runs after a row with its
\* chave_acesso was inserted inserts nothing.
C8_SoAntesDaInsercao ==
    /\ \A i \in 1..Len(notas_fiscais), j \in 1..Len(notas_fiscais) :
          (i < j /\ notas_fiscais[i].chave_acesso = notas_fiscais[j].chave_acesso)
              => /\ achou[PedidoDaLinha(i)].linhas < i
                 /\ achou[PedidoDaLinha(j)].linhas < i
    /\ \A p \in Pedidos :
          (pc[p] # "verificar" /\ achou[p].existe)
              => /\ pc[p] = "fim"
                 /\ \A i \in 1..Len(notas_fiscais) :
                       notas_fiscais[i].numero # pedido[p].numero

\* both requests carried the same chave_acesso, both checks ran before the
\* first insert, and the table holds the two rows
C8_Witness ==
    /\ \E i \in 1..Len(notas_fiscais), j \in 1..Len(notas_fiscais) :
          /\ i < j
          /\ notas_fiscais[i].chave_acesso = notas_fiscais[j].chave_acesso
          /\ achou[PedidoDaLinha(j)].linhas < i
    /\ \A p \in Pedidos : pc[p] = "fim"

(***************************************************************************)
(* PDFExtractor.extrair_dados_pdf and XMLExtractor.extrair_dados_xml as    *)
(* functions, each followed by ValidadorNF.validar_nota_fiscal on the      *)
(* record it returned.                                                     *)
(***************************************************************************)
CamposPdf == {"cnpj", "numero", "data", "serie", "emitente", "valor", "chave"}

\* group(1) of each pattern on a DANFE where the pattern matches
CapturaPdf ==
    [cnpj |-> "11.222.333/0001-81", numero |-> "456", data |-> "01/01/2024",
     serie |-> "1", emitente |-> "ACME LTDA", valor |-> "1500,00",
     chave |-> ChaveEspacada]

\* a readable PDF on whose text exactly the patterns of `casam` match, and
\* the natureza pattern when `natureza`.  That pattern is anchored at both
\* ends of the page text, so no other pattern matches a text it matches.
PdfDe(casam, natureza) ==
    [legivel |-> TRUE, natureza |-> natureza,
     c |-> [f \in CamposPdf |-> IF f \in casam THEN <<CapturaPdf[f]>> ELSE <<>>]]

\* bytes pdfplumber cannot open
PdfIlegivel == [PdfDe({}, FALSE) EXCEPT !.legivel = FALSE]

\* a DANFE whose date text is no calendar date
PdfDataRuim == [PdfDe(CamposPdf, FALSE) EXCEPT !.c.data = <<"31/02/2024">>]

\* a readable PDF whose whole text is "natureza operacao"
PdfSoNatureza == PdfDe({}, TRUE)

PdfsExtrator ==
    {PdfDe(casam, FALSE) : casam \in SUBSET CamposPdf}
        \cup {PdfSoNatureza, PdfIlegivel, PdfDataRuim}

\* NfXml with the given infNFe Id and root tag
XmlComId(id, raiz) ==
    [NfXml EXCEPT !.raiz = raiz, !.inf = <<[@[1] EXCEPT !.Id = id]>>]

\* the i-th det element of a long invoice
DetDe(i) ==
    <<[cProd |-> "P" \o ToString(i), xProd |-> "Parafuso", NCM |-> "7318",
       qCom |-> "2.00", vUnCom |-> "50.00", vProd |-> "100.00"]>>

\* NfXml with the given det elements
XmlComDet(det) == [NfXml EXCEPT !.inf = <<[@[1] EXCEPT !.det = det]>>]

\* det elements whose prod has no vProd, or a vProd of zero
DetSemVProd ==
    <<[cProd |-> "P1", xProd |-> "Parafuso", NCM |-> "7318",
       qCom |-> "2.00", vUnCom |-> "50.00"]>>

DetVProdZero ==
    <<[cProd |-> "P2", xProd |-> "Porca", NCM |-> "7318",
       qCom |-> "2.00", vUnCom |-> "50.00", vProd |-> "0.00"]>>

\* numbers of det elements around MAX_ITEMS_PER_NF
ContagensDet == {0, 1, 2, MAX_ITEMS_PER_NF - 1, MAX_ITEMS_PER_NF,
                 MAX_ITEMS_PER_NF + 1, MAX_ITEMS_PER_NF + 2}

\* 44-digit access keys an Id can carry
Chaves44 == {Chave44A, Chave44B, Chave44X, Repeat("0", 44)}

XmlsExtrator ==
    {[NfXml EXCEPT !.tamanho = t, !.utf8 = u, !.bem_formado = b] :
        t \in {2048, MAX_XML_SIZE, MAX_XML_SIZE + 1, 2 * MAX_XML_SIZE},
        u \in BOOLEAN, b \in BOOLEAN}
      \cup {XmlComId(prefixo \o chave, raiz) :
               prefixo \in {"", "NFe"}, chave \in Chaves44,
               raiz \in {"nfeProc", "NFe"}}
      \cup {XmlComId(SubSeq(Chave44A, 1, 43), "NFe"), XmlComId("", "NFe"),
            [NfXml EXCEPT !.raiz = "html"], SemInfXml,
            [SemInfXml EXCEPT !.raiz = "NFe"]}
      \cup {XmlComDet([i \in 1..n |-> DetDe(i)]) : n \in ContagensDet}
      \cup {XmlComDet(<<DetDe(1), <<>>, DetDe(3)>>),
            XmlComDet(<<DetSemVProd>>), XmlComDet(<<DetVProdZero>>),
            XmlComDet(<<DetDe(1), DetVProdZero>>)}

\* variant of parse_xml_safely that decodes and parses before it looks at
\* the size
PassosTamanhoNoFim(xml) ==
    IF ~xml.utf8 THEN <<"decode">>
    ELSE IF ~xml.bem_formado THEN <<"decode", "fromstring">>
    ELSE <<"decode", "fromstring", "validate_xml_size">>

\* the steps parse_xml_safely takes on xml_content, in the order it takes
\* them, up to the one that made it return
parse_xml_passos(xml) ==
    IF xml.tamanho > MAX_XML_SIZE THEN <<"validate_xml_size">>
    ELSE IF ~xml.utf8 THEN <<"validate_xml_size", "decode">>
    ELSE IF ~xml.bem_formado THEN <<"validate_xml_size", "decode", "fromstring">>
    ELSE <<"validate_xml_size", "decode", "fromstring", "_validate_xml_structure">>

InitExtrator ==
    /\ ext_doc \in {<<[tipo |-> "pdf", d |-> pdf]>> : pdf \in PdfsExtrator}
                     \cup {<<[tipo |-> "xml", d |-> xml]>> : xml \in XmlsExtrator}
    /\ ext_nota = <<>>
    /\ ext_passos = <<>>
    /\ ext_val = "pendente"
    /\ ext_fase = "entrada"
    /\ PipeParado /\ CnpjParado /\ ValParado /\ RaceParado /\ FnParado /\ RlParado

\* PDFExtractor.extrair_dados_pdf(pdf_content)
ExtrairPdf ==
    /\ ext_fase = "entrada"
    /\ ext_doc[1].tipo = "pdf"
    /\ ext_nota' = extrair_dados_pdf(ext_doc[1].d)
    /\ ext_fase' = "extraido"
    /\ UNCHANGED <<ext_doc, ext_passos, ext_val>>
    /\ UNCHANGED <<vars_pipe, vars_cnpj, vars_val, vars_race, vars_fn, vars_rl>>

\* XMLExtractor.extrair_dados_xml(xml_content, filename)
ExtrairXml ==
    /\ ext_fase = "entrada"
    /\ ext_doc[1].tipo = "xml"
    /\ ext_nota' = extrair_dados_xml(ext_doc[1].d)
    /\ ext_passos' = parse_xml_passos(ext_doc[1].d)
    /\ ext_fase' = "extraido"
    /\ UNCHANGED <<ext_doc, ext_val>>
    /\ UNCHANGED <<vars_pipe, vars_cnpj, vars_val, vars_race, vars_fn, vars_rl>>

\* ValidadorNF.validar_nota_fiscal on the record the extractor returned
ValidarExtraida ==
    /\ ext_fase = "extraido"
    /\ ext_nota # <<>>
    /\ LET v == validar_nota_fiscal(ext_nota[1])
       IN  /\ ext_val' = BoolStr(v.ok)
           /\ ext_nota' = <<v.nota>>
    /\ ext_fase' = "validado"
    /\ UNCHANGED <<ext_doc, ext_passos>>
    /\ UNCHANGED <<vars_pipe, vars_cnpj, vars_val, vars_race, vars_fn, vars_rl>>

NextExtrator == ExtrairPdf \/ ExtrairXml \/ ValidarExtraida

SpecExtrator == InitExtrator /\ [][NextExtrator]_vars

\* the extractor has returned for the document
Extraido == ext_fase \in {"extraido", "validado"}

\* the document is a PDF pdfplumber reads
PdfLegivel == ext_doc # <<>> /\ ext_doc[1].tipo = "pdf" /\ ext_doc[1].d.legivel

\* C12 (as stated): for every readable PDF on which the total-value
\* pattern does not match, extrair_dados_pdf returns a record whose
\* valor_total is 0, and validar_nota_fiscal returns False for it.
C12_Original ==
    (PdfLegivel /\ Extraido /\ ext_doc[1].d.c.valor = <<>>)
        => /\ ext_nota # <<>>
           /\ ext_fase = "extraido" => ext_nota[1].valor_total = VFloat(DecZero)
           /\ ext_fase = "validado" => ext_val = "False"

\* the default extrair_dados_pdf documents for each pattern that fails
PadraoPdf ==
    [cnpj |-> "CNPJ 00.111.111/0001-11", numero |-> "Nº: 0", serie |-> "SÉRIE 0",
     emitente |-> "EMITENTE NÃO ENCONTRADO",
     chave |-> "0000 0000 0000 0000 0000 0000 0000 0000 0000 0000 0000"]

\* the field of the record each text pattern fills
CampoDaNota ==
    [cnpj |-> "cnpj_emitente", numero |-> "numero", serie |-> "serie",
     emitente |-> "nome_emitente", chave |-> "chave_acesso"]

\* C13 (as stated): for every readable PDF, whichever of the patterns match
\* its text, extrair_dados_pdf returns a record (never None) in which every
\* field whose pattern did not match holds its default; None is returned
\* only for bytes that are not readable as a PDF.
C13_Original ==
    (ext_doc # <<>> /\ ext_doc[1].tipo = "pdf" /\ ext_fase = "extraido")
        => /\ ext_nota = <<>> <=> ~ext_doc[1].d.legivel
           /\ ext_nota # <<>> =>
                 /\ \A f \in DOMAIN PadraoPdf :
                       ext_doc[1].d.c[f] = <<>>
                           => ext_nota[1][CampoDaNota[f]] = PadraoPdf[f]
                 /\ ext_doc[1].d.c.valor = <<>>
                       => ext_nota[1].valor_total = VFloat(DecZero)
                 /\ ext_doc[1].d.c.data = <<>> => ext_nota[1].data_emissao = <<0>>
                 /\ ext_nota[1].natureza_operacao = "SEM NATUREZA"

\* the document is an XML input
DocXml == ext_doc # <<>> /\ ext_doc[1].tipo = "xml"

\* C14: for every XML input of more than 10 MiB, extrair_dados_xml returns
\* None, and the size check is the only step parse_xml_safely takes: the
\* content is neither decoded nor handed to the parser.
C14_TamanhoAntesDoParse ==
    (DocXml /\ Extraido /\ ext_doc[1].d.tamanho > 10 * 1024 * 1024)
        => /\ ext_nota = <<>>
           /\ ext_fase = "extraido"
           /\ ext_passos = <<"validate_xml_size">>

\* an input one byte over the limit, otherwise a well-formed UTF-8 NF-e,
\* was refused
C14_Witness ==
    /\ DocXml /\ ext_fase = "extraido"
    /\ ext_doc[1].d.tamanho = 10 * 1024 * 1024 + 1
    /\ ext_doc[1].d.utf8 /\ ext_doc[1].d.bem_formado
    /\ ext_nota = <<>>
    /\ ext_passos = <<"validate_xml_size">>

\* the XML input is a UTF-8, well-formed NF-e within the size limit whose
\* infNFe Id is the 44 digits `chave`, with or without the NFe marker; the
\* inputs of the catalogue all carry a complete ide, emit and total
NfeComChave(chave) ==
    /\ DocXml
    /\ ext_doc[1].d.tamanho <= MAX_XML_SIZE
    /\ ext_doc[1].d.utf8 /\ ext_doc[1].d.bem_formado
    /\ ext_doc[1].d.raiz \in {"nfeProc", "NFe"}
    /\ ext_doc[1].d.inf # <<>>
    /\ ext_doc[1].d.inf[1].Id \in {chave, "NFe" \o chave}

\* extraction returned a record whose chave_acesso is `chave`
ChaveExtraida(chave) ==
    Extraido /\ ext_nota # <<>> /\ ext_nota[1].chave_acesso = chave

\* C15 (as stated): for every UTF-8 XML of the minimal valid NF-e shape
\* whose infNFe Id carries 44 digits, with or without the NFe marker,
\* extraction returns an invoice whose chave_acesso is exactly those 44
\* digits and which validar_nota_fiscal accepts.
C15_Original ==
    \A chave \in Chaves44 :
        (NfeComChave(chave) /\ Extraido)
            => /\ ChaveExtraida(chave)
               /\ ext_fase = "validado" => ext_val = "True"

\* C15 (amended): for every such XML extraction returns an invoice whose
\* chave_acesso is exactly the 44 digits of the Id; validar_nota_fiscal
\* accepts the invoice when the 44 digits are not all zero and rejects it
\* when they are.
C15_ChaveExata ==
    \A chave \in Chaves44 :
        (NfeComChave(chave) /\ Extraido)
            => /\ ChaveExtraida(chave)
               /\ ext_fase = "validado"
                     => (ext_val = "True" <=> chave # Repeat("0", 44))

\* an Id without the NFe marker was extracted to its 44 digits and the
\* invoice was accepted
C15_Witness ==
    /\ NfeComChave(Chave44A)
    /\ ext_doc[1].d.inf[1].Id = Chave44A
    /\ ChaveExtraida(Chave44A)
    /\ ext_fase = "validado" /\ ext_val = "True"

\* the XML input passes parse_xml_safely: within the size limit, UTF-8,
\* well formed, a recognised root with infNFe (every input of the
\* catalogue with infNFe carries ide, emit and total)
XmlValido ==
    /\ DocXml
    /\ ext_doc[1].d.tamanho <= MAX_XML_SIZE
    /\ ext_doc[1].d.utf8 /\ ext_doc[1].d.bem_formado
    /\ ext_doc[1].d.raiz \in {"nfeProc", "NFe"}
    /\ ext_doc[1].d.inf # <<>>

\* the det elements of the input, in document order
DetDoDoc == ext_doc[1].d.inf[1].det

\* the first MAX_ITEMS_PER_NF det elements that hold a prod
PrimeirosComProd ==
    SelectSeq(SubSeq(DetDoDoc, 1, IF Len(DetDoDoc) > 1000 THEN 1000 ELSE Len(DetDoDoc)),
              LAMBDA d : d # <<>>)

\* C17: for a valid XML with any number n of det elements, extraction
\* returns an invoice whatever n is; the invoice holds at most 1000 items,
\* which are, in document order, the det elements among the first 1000;
\* the det elements after the 1000th are dropped.
C17_LimiteDeItens ==
    (XmlValido /\ Extraido)
        => /\ ext_nota # <<>>
           /\ Len(ext_nota[1].itens) <= 1000
           /\ Len(ext_nota[1].itens) = Len(PrimeirosComProd)
           /\ \A i \in 1..Len(PrimeirosComProd) :
                 ext_nota[1].itens[i].codigo = PrimeirosComProd[i][1].cProd

\* an invoice of 1002 det elements was extracted with the items P1..P1000
C17_Witness ==
    /\ XmlValido /\ ext_fase = "extraido"
    /\ Len(DetDoDoc) = 1002
    /\ ext_nota # <<>>
    /\ Len(ext_nota[1].itens) = 1000
    /\ ext_nota[1].itens[1].codigo = "P1"
    /\ ext_nota[1].itens[1000].codigo = "P1000"

(***************************************************************************)
(* Dashboard._processar_csv_itens, DataSanitizer.sanitize_numeric_value    *)
(* and DataSanitizer.sanitize_chave_acesso as functions of their           *)
(* arguments.                                                              *)
(***************************************************************************)
\* longest items file handed to _processar_csv_itens
MaxLinhas == 3

\* the row of notas_fiscais of invoice `numero`
NotaNoBanco(numero, id) ==
    NfData(NotaFiscal(numero, "1", <<0>>, "11.222.333/0001-81", "ACME",
                      VFloat(Dec(1, 1500, 0)), "", "VENDA", <<>>),
           "20240101000000", id, Dec(1, 1500, 0))

\* the stores an items file meets
BancosDeItens ==
    {<<>>, <<NotaNoBanco("123", 1)>>, <<NotaNoBanco("123", 1), NotaNoBanco("321", 2)>>}

\* items files of 1..MaxLinhas rows whose numbers are stored or not
ItensDf ==
    {[legivel |-> TRUE, colunas |-> ColunasItens,
      linhas |-> [i \in 1..Len(numeros) |->
                    LinhaItem(numeros[i], "P" \o ToString(i))]] :
        numeros \in UNION {[1..k -> {"123", "321", "999"}] : k \in 1..MaxLinhas}}

\* an items file without a column for the product code
ItensSemCodigo ==
    [legivel |-> TRUE, colunas |-> <<"Número NF", "Descrição">>,
     linhas |-> <<[c \in {"Número NF", "Descrição"} |->
                      IF c = "Número NF" THEN "123" ELSE "Parafuso"]>>]

ArgsItens ==
    {[df |-> df, notas |-> notas, falha |-> falha] :
        df \in ItensDf \cup {ItensSemCodigo},
        notas \in BancosDeItens,
        falha \in {"nenhuma", "item", "contagem"}}

InitItens ==
    /\ fn_nome = "itens"
    /\ fn_arg \in {<<a>> : a \in ArgsItens}
    /\ fn_res = <<>>

\* self._processar_csv_itens(df, filename)
AplicarItens ==
    /\ fn_nome = "itens"
    /\ fn_res = <<>>
    /\ fn_res' = <<processar_csv_itens(fn_arg[1].df, fn_arg[1].notas, <<>>,
                                       fn_arg[1].falha)>>
    /\ UNCHANGED <<fn_nome, fn_arg>>
    /\ UNCHANGED <<vars_pipe, vars_cnpj, vars_val, vars_race, vars_ext, vars_rl>>

\* texts handed to sanitize_numeric_value
TextosNumericos ==
    {"1234,56", "1.234,56", "1.234.567,89", "1234.56", "12", "0,5", "-5,5",
     "R$ 10,00", "1,2,3", "abc", "", ".", ",", "-", "1-2", "12abc", " 7 "}

\* texts handed to sanitize_chave_acesso
TextosDeChave ==
    {"", "abc", "NFe", Chave44A, "NFe" \o Chave44A, ChaveEspacada,
     Repeat("0", 44), SubSeq(Chave44A, 1, 43), Chave44A \o "9",
     "NNFeFe" \o Chave44B, "chave: " \o Chave44X \o ".", "12NFe34"}

InitNumeric ==
    /\ fn_nome = "numeric"
    /\ fn_arg \in {<<t>> : t \in TextosNumericos}
    /\ fn_res = <<>>

InitChave ==
    /\ fn_nome = "chave"
    /\ fn_arg \in {<<t>> : t \in TextosDeChave}
    /\ fn_res = <<>>

\* items of the largest invoice handed to salvar_nota_fiscal
MaxItensSalvar == 2

\* invoices handed to salvar_nota_fiscal: a total that float() converts or
\* one it cannot convert, and up to MaxItensSalvar items
NotasParaSalvar ==
    {NotaFiscal("123", "1", <<0>>, "11222333000181", "ACME", valor, chave, "VENDA",
                [i \in 1..n |-> ItemValido(i)]) :
        valor \in {VFloat(Dec(1, 1500, 0)), VStr("1.500,00")},
        chave \in {Chave44A, Chave44B},
        n \in 0..MaxItensSalvar}

\* the tables before the call: empty, or holding the invoice of Chave44A
\* with one item
BancosParaSalvar ==
    {[notas |-> <<>>, itens |-> <<>>],
     [notas |-> <<NfData(NotaFiscal("123", "1", <<0>>, "11222333000181", "ACME",
                                    VFloat(Dec(1, 1500, 0)), Chave44A, "VENDA", <<>>),
                         TimeStr(0), 1, Dec(1, 1500, 0))>>,
      itens |-> <<ItemData(ItemValido(1), 1)>>]}

\* database failures a call of salvar_nota_fiscal can meet
FalhasSalvar == {"nenhuma", "verificacao", "insercao", "item"}

InitSalvar ==
    /\ fn_nome = "salvar"
    /\ fn_arg \in {<<[notas |-> b.notas, itens |-> b.itens, nota |-> nota, falha |-> falha]>> :
                      b \in BancosParaSalvar, nota \in NotasParaSalvar,
                      falha \in FalhasSalvar}
    /\ fn_res = <<>>

\* CSV files handed to both upload paths: header files, an items file, a
\* header file named as an items file, a flat file, a file that cannot be
\* read
ArquivosCsv ==
    {Arquivo("header.csv", TRUE, CabecalhoA),
     Arquivo("items.csv", TRUE, ItensCsv),
     Arquivo("itens_header.csv", TRUE, CabecalhoB),
     Arquivo("notas.csv", TRUE, NotasCsv),
     Arquivo("cabecalho_min.csv", TRUE, CabecalhoMinimo),
     Arquivo("header_sem_numero.csv", TRUE, CabecalhoSemNumero),
     Arquivo("itens_ordem.csv", TRUE, ItensOrdem),
     Arquivo("quebrado.csv", FALSE, CabecalhoA)}

InitContagem ==
    /\ fn_nome = "contagem"
    /\ fn_arg \in {<<[arquivo |-> f, notas |-> notas, falha |-> falha]>> :
                      f \in ArquivosCsv, notas \in BancosDeItens, falha \in Falhas}
    /\ fn_res = <<>>

InitFuncoes ==
    /\ InitItens \/ InitNumeric \/ InitChave \/ InitSalvar \/ InitContagem
    /\ PipeParado /\ CnpjParado /\ ValParado /\ RaceParado /\ ExtParado /\ RlParado

\* DataSanitizer.sanitize_numeric_value(value) on a str
AplicarNumeric ==
    /\ fn_nome = "numeric"
    /\ fn_res = <<>>
    /\ fn_res' = <<sanitize_numeric_value(fn_arg[1])>>
    /\ UNCHANGED <<fn_nome, fn_arg>>
    /\ UNCHANGED <<vars_pipe, vars_cnpj, vars_val, vars_race, vars_ext, vars_rl>>

\* DataSanitizer.sanitize_chave_acesso(chave), first on the argument and
\* then on its own result ("" stands for None)
AplicarChave ==
    /\ fn_nome = "chave"
    /\ Len(fn_res) < 2
    /\ fn_res' = Append(fn_res, sanitize_chave_acesso(
                                    IF fn_res = <<>> THEN fn_arg[1] ELSE fn_res[1]))
    /\ UNCHANGED <<fn_nome, fn_arg>>
    /\ UNCHANGED <<vars_pipe, vars_cnpj, vars_val, vars_race, vars_ext, vars_rl>>

\* DatabaseManager.salvar_nota_fiscal(nota) on the tables of the argument
AplicarSalvar ==
    /\ fn_nome = "salvar"
    /\ fn_res = <<>>
    /\ fn_res' = <<salvar_nota_fiscal(fn_arg[1].notas, fn_arg[1].itens, fn_arg[1].nota,
                                      TimeStr(0), fn_arg[1].falha)>>
    /\ UNCHANGED <<fn_nome, fn_arg>>
    /\ UNCHANGED <<vars_pipe, vars_cnpj, vars_val, vars_race, vars_ext, vars_rl>>

\* resultados['processados'] and resultados['erros'] of a finished call
Contadores(est) == [processados |-> est.processados, erros |-> est.erros]

\* processar_arquivos_upload([arquivo]) on the tables of the argument
ContarDireto ==
    /\ fn_nome = "contagem"
    /\ fn_res = <<>>
    /\ fn_res' = <<Contadores(processar_arquivos_upload(fn_arg[1].notas, <<>>, <<>>,
                                   <<fn_arg[1].arquivo>>, TimeStr(0), fn_arg[1].falha))>>
    /\ UNCHANGED <<fn_nome, fn_arg>>
    /\ UNCHANGED <<vars_pipe, vars_cnpj, vars_val, vars_race, vars_ext, vars_rl>>

\* processar_arquivos_upload([lote.zip]) on the same tables, the bundle
\* holding the file as its only entry
ContarNoZip ==
    /\ fn_nome = "contagem"
    /\ Len(fn_res) = 1
    /\ fn_res' = Append(fn_res,
                        Contadores(processar_arquivos_upload(fn_arg[1].notas, <<>>, <<>>,
                            <<Arquivo("lote.zip", TRUE,
                                      [valido |-> TRUE, entradas |-> <<fn_arg[1].arquivo>>])>>,
                            TimeStr(0), fn_arg[1].falha)))
    /\ UNCHANGED <<fn_nome, fn_arg>>
    /\ UNCHANGED <<vars_pipe, vars_cnpj, vars_val, vars_race, vars_ext, vars_rl>>

NextFuncoes == AplicarItens \/ AplicarNumeric \/ AplicarChave \/ AplicarSalvar \/ ContarDireto \/ ContarNoZip

SpecFuncoes == InitFuncoes /\ [][NextFuncoes]_vars

\* the rows of the items file whose number is the numero of a stored invoice
LinhasComNota ==
    {i \in 1..Len(fn_arg[1].df.linhas) :
        \E j \in 1..Len(fn_arg[1].notas) :
            fn_arg[1].notas[j].numero = fn_arg[1].df.linhas[i]["Número NF"]}

\* C21: an items-role CSV processed to completion returns an empty list,
\* whether none, some or all of its rows were stored (the rows stored are
\* those whose number is stored, or none when the item inserts fail); None
\* is not returned for rows that failed.
C21_ListaVazia ==
    (fn_nome = "itens" /\ fn_res # <<>>)
        => /\ fn_res[1].ret = "lista"
           /\ fn_res[1].notas = <<>>
           /\ fn_arg[1].df # ItensSemCodigo
                 => fn_res[1].salvos = IF fn_arg[1].falha = "item" THEN 0
                                       ELSE Cardinality(LinhasComNota)

\* a file of three rows of which one matches a stored invoice returned the
\* empty list with one row stored and two failed
C21_Witness ==
    /\ fn_nome = "itens" /\ fn_res # <<>>
    /\ Len(fn_arg[1].df.linhas) = 3
    /\ Cardinality(LinhasComNota) = 1
    /\ fn_res[1].salvos = 1
    /\ fn_res[1].buscas = 3
    /\ fn_res[1].ret = "lista"
    /\ fn_res[1].notas = <<>>

\* the text read with ',' as the decimal separator, and '.' as the
\* thousands separator when both are there: <<value>>, or <<>>
LidoComoDecimal(value) ==
    LET limpo == KeepNumeric(value)
    IN  ParseFloat(IF Contains(limpo, ",") /\ Contains(limpo, ".")
                   THEN ReplaceCh(RemoveSub(limpo, "."), ",", ".")
                   ELSE ReplaceCh(limpo, ",", "."))

\* C25: sanitize_numeric_value on text reads ',' as the decimal separator
\* when there is no '.', reads '.' as the thousands separator and ',' as
\* the decimal separator when both are there ("1.234,56" gives 1234.56),
\* and gives 0.0 for text that cannot be read.
C25_Original ==
    (fn_nome = "numeric" /\ fn_res # <<>>)
        => fn_res[1] = IF LidoComoDecimal(fn_arg[1]) = <<>> THEN DecZero
                       ELSE LidoComoDecimal(fn_arg[1])[1]

\* C26: sanitize_chave_acesso applied to its own result gives that result
\* again, for accepted and for rejected inputs.
C26_Idempotente ==
    (fn_nome = "chave" /\ Len(fn_res) = 2) => fn_res[2] = fn_res[1]

\* the marked key, cleaned to its 44 digits, is cleaned to the same digits
C26_Witness ==
    /\ fn_nome = "chave"
    /\ Len(fn_res) = 2
    /\ fn_arg[1] = "NFe" \o Chave44A
    /\ fn_res[1] = Chave44A
    /\ fn_res[2] = Chave44A

\* the call of salvar_nota_fiscal stored the invoice and every item of it,
\* or left both tables as they were
TudoOuNada ==
    IF fn_res[1].ret = "True"
    THEN /\ Len(fn_res[1].notas) = Len(fn_arg[1].notas) + 1
         /\ SubSeq(fn_res[1].notas, 1, Len(fn_arg[1].notas)) = fn_arg[1].notas
         /\ fn_res[1].notas[Len(fn_res[1].notas)].chave_acesso = fn_arg[1].nota.chave_acesso
         /\ Len(fn_res[1].itens) = Len(fn_arg[1].itens) + Len(fn_arg[1].nota.itens)
         /\ SubSeq(fn_res[1].itens, 1, Len(fn_arg[1].itens)) = fn_arg[1].itens
         /\ \A i \in (Len(fn_arg[1].itens) + 1)..Len(fn_res[1].itens) :
               fn_res[1].itens[i].nota_fiscal_id = fn_res[1].notas[Len(fn_res[1].notas)].id
    ELSE /\ fn_res[1].notas = fn_arg[1].notas
         /\ fn_res[1].itens = fn_arg[1].itens

C29_Original ==
    (fn_nome = "contagem" /\ Len(fn_res) = 2) => fn_res[1] = fn_res[2]

(***************************************************************************)
(* RateLimiter.is_allowed, and buscar_e_processar_emails behind it.  Time  *)
(* is in whole seconds; self._requests maps the identifiers seen so far to *)
(* the timestamps recorded for them.                                       *)
(***************************************************************************)
\* variant of is_allowed that records the timestamp of a refused call too
IsAllowedRegistraTudo(requests, identifier, max_requests, window_minutes, now) ==
    LET atuais == IF identifier \in DOMAIN requests
                  THEN SelectSeq(requests[identifier],
                                 LAMBDA req_time : req_time > now - window_minutes * 60)
                  ELSE <<>>
    IN  [ok |-> Len(atuais) < max_requests,
         requests |-> [i \in DOMAIN requests \cup {identifier} |->
                          IF i = identifier THEN Append(atuais, now) ELSE requests[i]]]

\* RateLimiter.is_allowed: [ok, requests], the answer and self._requests
\* after the call
is_allowed(requests, identifier, max_requests, window_minutes, now) ==
    LET atuais == IF identifier \in DOMAIN requests
                  THEN SelectSeq(requests[identifier],
                                 LAMBDA req_time : req_time > now - window_minutes * 60)
                  ELSE <<>>
    IN  IF Len(atuais) >= max_requests
        THEN [ok |-> FALSE,
              requests |-> [i \in DOMAIN requests \cup {identifier} |->
                               IF i = identifier THEN atuais ELSE requests[i]]]
        ELSE [ok |-> TRUE,
              requests |-> [i \in DOMAIN requests \cup {identifier} |->
                               IF i = identifier THEN Append(atuais, now)
                               ELSE requests[i]]]

\* variant of the guard of buscar_e_processar_emails that goes on whatever
\* the limiter answered
SeguirSemLimite(resposta) == TRUE

\* "if not rate_limiter.is_allowed(...): return": TRUE when the batch goes on
seguir_apos_limite(resposta) == resposta

\* window_minutes of the call in buscar_e_processar_emails
JanelaEmail == 60

\* calls of buscar_e_processar_emails in one behaviour
MaxChamadasEmail == 11

\* seconds between two calls of buscar_e_processar_emails
Intervalos == {300, 3600}

\* what the mailbox search returns: nothing, or the unread message "NF-e 789"
CaixasDeEntrada == {<<>>, <<Emails[1]>>}

\* one run of buscar_e_processar_emails: the limiter is asked first; the
\* mailbox is opened and its messages handled only when it allows the call
EmailLimitado ==
    /\ Len(rl_hist) < MaxChamadasEmail
    /\ \E emails \in CaixasDeEntrada, passo \in Intervalos :
         LET limite(r) ==
                 /\ rl_requests' = r.requests
                 /\ rl_hist' = Append(rl_hist, [identifier |-> "email_processing",
                                                t |-> rl_agora, ok |-> r.ok])
                 /\ rl_agora' = rl_agora + passo
                 /\ IF seguir_apos_limite(r.ok)
                    THEN /\ Concluir(buscar_e_processar_emails(notas_fiscais,
                                         itens_nota_fiscal, persistidas, emails,
                                         TimeStr(relogio % 10), "nenhuma"),
                                     "email", [i \in 1..Len(emails) |-> NomeDoEmail(emails[i])],
                                     0)
                         /\ requisicoes' = requisicoes + 1
                    ELSE UNCHANGED vars_pipe
         IN  limite(is_allowed(rl_requests, "email_processing", MaxRequests,
                               JanelaEmail, rl_agora))
    /\ UNCHANGED <<rl_cfg, vars_cnpj, vars_val, vars_race, vars_ext, vars_fn>>

NextEmailLimitado == EmailLimitado

SpecEmailLimitado == Init /\ [][NextEmailLimitado]_vars

\* the limiter answered the last call with "not allowed"
UltimaRecusada == rl_hist # <<>> /\ ~rl_hist[Len(rl_hist)].ok

\* C23: a run of buscar_e_processar_emails that the limiter refuses for
\* the key email_processing is a no-op for the whole batch: no message is
\* taken from the mailbox, nothing is extracted, validated or stored, and
\* no result, failure or message of a document is recorded.
C23_LoteBloqueado ==
    [][(rl_hist' # rl_hist /\ ~rl_hist'[Len(rl_hist')].ok)
          => /\ UNCHANGED vars_pipe
             /\ rl_hist'[Len(rl_hist')].identifier = "email_processing"]_vars

\* the eleventh run inside one hour was refused after a run that stored an
\* invoice
C23_Witness ==
    /\ UltimaRecusada
    /\ Len(rl_hist) = 11
    /\ requisicoes = 10
    /\ Len(notas_fiscais) = 1

(***************************************************************************)
(* RateLimiter.is_allowed on its own: calls for two identifiers with one   *)
(* max_requests and one window, on a clock that never goes back.           *)
(***************************************************************************)
\* largest max_requests, largest window_minutes, calls in one behaviour
MaxPedidosJanela == 2
MaxJanela == 2
MaxChamadas == 4

Identificadores == {"email_processing", "upload"}

\* seconds between two calls
PassosDoRelogio == {0, 30, 60}

InitLimiter ==
    /\ rl_requests = <<>>
    /\ rl_agora = 0
    /\ rl_hist = <<>>
    /\ rl_cfg \in {<<[max_requests |-> m, window_minutes |-> w]>> :
                      m \in 0..MaxPedidosJanela, w \in 1..MaxJanela}
    /\ PipeParado /\ CnpjParado /\ ValParado /\ RaceParado /\ ExtParado /\ FnParado

\* rate_limiter.is_allowed(identifier, max_requests, window_minutes)
IsAllowed ==
    /\ Len(rl_hist) < MaxChamadas
    /\ \E identifier \in Identificadores, passo \in PassosDoRelogio :
         LET chamada_feita(r) ==
                 /\ rl_requests' = r.requests
                 /\ rl_hist' = Append(rl_hist, [identifier |-> identifier,
                                                t |-> rl_agora, ok |-> r.ok])
         IN  /\ chamada_feita(is_allowed(rl_requests, identifier, rl_cfg[1].max_requests,
                                         rl_cfg[1].window_minutes, rl_agora))
             /\ rl_agora' = rl_agora + passo
    /\ UNCHANGED <<rl_cfg, vars_pipe, vars_cnpj, vars_val, vars_race, vars_ext, vars_fn>>

NextLimiter == IsAllowed

SpecLimiter == InitLimiter /\ [][NextLimiter]_vars

\* the calls of rl_hist made for one identifier
ChamadasDe(identifier) == SelectSeq(rl_hist, LAMBDA h : h.identifier = identifier)

\* the timestamps of the allowed calls for the identifier that are later
\* than `desde` and not later than `ate`
PermitidasEntre(identifier, desde, ate) ==
    {i \in 1..Len(rl_hist) : /\ rl_hist[i].identifier = identifier
                             /\ rl_hist[i].ok
                             /\ rl_hist[i].t > desde
                             /\ rl_hist[i].t <= ate}

\* the answers a limiter that only ever saw the calls `chamadas` gives them
RECURSIVE RespostasSozinho(_, _, _)
RespostasSozinho(chamadas, i, requests) ==
    IF i > Len(chamadas) THEN <<>>
    ELSE LET seguinte(r) == <<r.ok>> \o RespostasSozinho(chamadas, i + 1, r.requests)
         IN  seguinte(is_allowed(requests, chamadas[i].identifier, rl_cfg[1].max_requests,
                                 rl_cfg[1].window_minutes, chamadas[i].t))

\* C28: for each identifier the allowed calls whose timestamps lie in one
\* window (later than some instant, at most window_minutes later) never
\* outnumber max_requests; the timestamps recorded for an identifier are
\* those of its allowed calls inside the window of its last call, so a
\* refused call records none; and the answers given to an identifier are
\* those it would get if no other identifier had called.
C28_Limite ==
    rl_cfg # <<>> =>
        \A identifier \in Identificadores :
            /\ \A desde \in (0 - rl_cfg[1].window_minutes * 60 - 1)..rl_agora :
                  Cardinality(PermitidasEntre(identifier, desde,
                                  desde + rl_cfg[1].window_minutes * 60))
                      <= rl_cfg[1].max_requests
            /\ ChamadasDe(identifier) # <<>> =>
                  /\ identifier \in DOMAIN rl_requests
                  /\ Len(rl_requests[identifier]) =
                        Cardinality(PermitidasEntre(identifier,
                            ChamadasDe(identifier)[Len(ChamadasDe(identifier))].t
                                - rl_cfg[1].window_minutes * 60,
                            ChamadasDe(identifier)[Len(ChamadasDe(identifier))].t))
                  /\ \A k \in 1..Len(rl_requests[identifier]) :
                        \E i \in 1..Len(rl_hist) :
                            /\ rl_hist[i].identifier = identifier
                            /\ rl_hist[i].ok
                            /\ rl_hist[i].t = rl_requests[identifier][k]
            /\ [i \in 1..Len(ChamadasDe(identifier)) |-> ChamadasDe(identifier)[i].ok]
                  = RespostasSozinho(ChamadasDe(identifier), 1, <<>>)

\* with one request a minute: a call allowed, a second one for the same
\* identifier refused inside the minute, a call for the other identifier
\* allowed meanwhile, and the first identifier allowed again a minute later
C28_Witness ==
    /\ rl_cfg = <<[max_requests |-> 1, window_minutes |-> 1]>>
    /\ Len(rl_hist) = 4
    /\ rl_hist[1] = [identifier |-> "upload", t |-> 0, ok |-> TRUE]
    /\ rl_hist[2] = [identifier |-> "upload", t |-> 30, ok |-> FALSE]
    /\ rl_hist[3] = [identifier |-> "email_processing", t |-> 30, ok |-> TRUE]
    /\ rl_hist[4] = [identifier |-> "upload", t |-> 60, ok |-> TRUE]
    /\ rl_requests["upload"] = <<60>>

====
